---- MODULE Spec2Model ----
(***************************************************************************)
(* Model of ion_cannon/model.py: the Bullet mapper (a record in a document *)
(* collection plus an optional blob in a GridFS-like blob store), the      *)
(* MilisecondsClock and the Clock singleton.                               *)
(*                                                                         *)
(* Python values are tagged records, one field name per type so that       *)
(* values of different types are comparable:                               *)
(*   None            [t |-> "none"]                                        *)
(*   str             [t |-> "str",   s |-> <<"a", "b">>]  (1-char strings) *)
(*   bytes           [t |-> "bytes", b |-> <<"x">>]                        *)
(*   int             [t |-> "int",   i |-> 3]                              *)
(*   bool            [t |-> "bool",  q |-> TRUE]                           *)
(*   list            [t |-> "list",  l |-> << v1, v2 >>]                   *)
(*   float           [t |-> "float", k, neg, m, e]  (decimal m * 10^e)     *)
(*   dict            [t |-> "dict",  ks |-> keys in insertion order,       *)
(*                                   d |-> [keys -> values]]  (str keys)   *)
(*   bson ObjectId   [t |-> "oid",   n |-> 7]                              *)
(***************************************************************************)
EXTENDS Integers, Sequences, FiniteSets, TLC

\* ------------------------------------------------------------------ bounds
\* Number of ObjectIds the process generates (documents and blobs together).
MaxOid == 3
\* Number of Bullet objects the callers hold at one time.
MaxHandles == 1
\* Capture times are 1..MaxTime.
MaxTime == 2
\* Hex digits of the string form of an ObjectId (24 in bson, scaled down).
OidLen == 2
\* Number of threads that call into the module concurrently.
MaxThreads == 2
\* Wall time (time.time() in milliseconds) runs over 0..MaxNow.
MaxNow == 2
\* Number of clock objects created.
MaxClocks == 3

\* ------------------------------------------------------------ Python values
None == [t |-> "none"]
PyStr(s) == [t |-> "str", s |-> s]
PyBytes(b) == [t |-> "bytes", b |-> b]
PyInt(i) == [t |-> "int", i |-> i]
PyBool(q) == [t |-> "bool", q |-> q]
PyList(l) == [t |-> "list", l |-> l]
PyDict(ks, d) == [t |-> "dict", ks |-> ks, d |-> d]
Oid(n) == [t |-> "oid", n |-> n]
\* A finite float: (-1)^neg * m * 10^e, normalised.
PyFloat(neg, m, e) == [t |-> "float", k |-> "fin", neg |-> neg, m |-> m, e |-> e]
\* float('inf') and float('-inf').
PyInf(neg) == [t |-> "float", k |-> "inf", neg |-> neg, m |-> 0, e |-> 0]
\* float('nan')
PyNan == [t |-> "float", k |-> "nan", neg |-> FALSE, m |-> 0, e |-> 0]

\* The empty dict {}: no keys.
EmptyDict == PyDict(<<>>, [k \in {} |-> None])

\* The dict after dct[key] = val: a new key goes to the end, a key that is
\* already there keeps its place.
DictPut(dct, key, val) ==
  PyDict(IF key \in DOMAIN dct.d THEN dct.ks ELSE Append(dct.ks, key),
         [x \in DOMAIN dct.d \cup {key} |-> IF x = key THEN val ELSE dct.d[x]])

\* Python truthiness, as used by `if self.id`, `if self.headers`,
\* `if self.content`, `if self.file`, `if result`.
Truthy(v) ==
  CASE v.t = "none" -> FALSE
    [] v.t = "str" -> Len(v.s) > 0
    [] v.t = "bytes" -> Len(v.b) > 0
    [] v.t = "int" -> v.i # 0
    [] v.t = "bool" -> v.q
    [] v.t = "float" -> v.k # "fin" \/ v.m # 0
    [] v.t = "list" -> Len(v.l) > 0
    [] v.t = "dict" -> DOMAIN v.d # {}
    [] OTHER -> TRUE

\* isinstance(v, dict)
IsDict(v) == v.t = "dict"

\* ---------------------------------------------------------------- strings
RECURSIVE Join(_, _)
\* sep.join(parts) on character sequences.
Join(parts, sep) ==
  IF Len(parts) = 0 THEN <<>>
  ELSE IF Len(parts) = 1 THEN parts[1]
  ELSE parts[1] \o sep \o Join(Tail(parts), sep)

\* The printable ASCII characters in the order of their code points, 32..126,
\* without the grave accent (96).
Ascii ==
  <<" ", "!", "\"", "#", "$", "%", "&", "'", "(", ")", "*", "+", ",", "-",
    ".", "/", "0", "1", "2", "3", "4", "5", "6", "7", "8", "9", ":", ";",
    "<", "=", ">", "?", "@", "A", "B", "C", "D", "E", "F", "G", "H", "I",
    "J", "K", "L", "M", "N", "O", "P", "Q", "R", "S", "T", "U", "V", "W",
    "X", "Y", "Z", "[", "\\", "]", "^", "_", "a", "b", "c", "d", "e",
    "f", "g", "h", "i", "j", "k", "l", "m", "n", "o", "p", "q", "r", "s",
    "t", "u", "v", "w", "x", "y", "z", "{", "|", "}", "~">>

\* ord(c) for the characters of the alphabet: those of Ascii, tab, line
\* feed, form feed, carriage return, and e-acute in lower and upper case
\* as the characters outside ASCII.
OrdMap ==
  [c \in {Ascii[k] : k \in 1..Len(Ascii)} \cup {"\t", "\n", "\f", "\r", "é", "É"} |->
     CASE c = "\t" -> 9
       [] c = "\n" -> 10
       [] c = "\f" -> 12
       [] c = "\r" -> 13
       [] c = "é" -> 233
       [] c = "É" -> 201
       [] OTHER -> LET k == CHOOSE j \in 1..Len(Ascii) : Ascii[j] = c
                   IN IF k <= 64 THEN k + 31 ELSE k + 32]
Ord(c) == OrdMap[c]

\* chr(n) for the code points of the alphabet.
Chr(n) ==
  CASE n \in 32..95 -> Ascii[n - 31]
    [] n \in 97..126 -> Ascii[n - 32]
    [] n = 9 -> "\t"
    [] n = 10 -> "\n"
    [] n = 12 -> "\f"
    [] n = 13 -> "\r"
    [] n = 233 -> "é"
    [] n = 201 -> "É"

Digits == <<"0", "1", "2", "3", "4", "5", "6", "7", "8", "9">>
HexDigits == Digits \o <<"a", "b", "c", "d", "e", "f">>

\* The value of each hex digit character, in either case.
HexMap ==
  [c \in {HexDigits[k] : k \in 1..16} \cup {"A", "B", "C", "D", "E", "F"} |->
     IF Ord(c) <= 57 THEN Ord(c) - 48
     ELSE IF Ord(c) >= 97 THEN Ord(c) - 87
     ELSE Ord(c) - 55]
IsHex(c) == c \in DOMAIN HexMap
HexVal(c) == HexMap[c]
IsDigit(c) == IsHex(c) /\ Ord(c) <= 57
DigitVal(c) == HexMap[c]

RECURSIVE IntToStr(_)
\* str(n)
IntToStr(n) ==
  IF n < 0 THEN <<"-">> \o IntToStr(0 - n)
  ELSE IF n < 10 THEN <<Digits[n + 1]>>
  ELSE IntToStr(n \div 10) \o <<Digits[(n % 10) + 1]>>

RECURSIVE HexToInt(_, _)
\* The number a run of hex digits stands for (acc: the value so far).
HexToInt(s, acc) ==
  IF Len(s) = 0 THEN acc ELSE HexToInt(Tail(s), acc * 16 + HexVal(Head(s)))

RECURSIVE IntToHex(_, _)
\* n as exactly len lower-case hex digits, zero padded.
IntToHex(n, len) ==
  IF len = 0 THEN <<>>
  ELSE IntToHex(n \div 16, len - 1) \o <<HexDigits[(n % 16) + 1]>>

\* n zeros.
Zeros(n) == [k \in 1..n |-> "0"]

\* ------------------------------------------------------------------ floats
RECURSIVE Normal(_, _, _)
\* The float m * 10^e with the trailing zeros of m moved into e.
Normal(neg, m, e) ==
  IF m = 0 THEN PyFloat(neg, 0, 0)
  ELSE IF m % 10 = 0 THEN Normal(neg, m \div 10, e + 1)
  ELSE PyFloat(neg, m, e)

\* The first nine digits of the largest finite double, 1.7976931348623157e308.
MaxDoubleDigits == 179769313
\* A decimal 0.d1...dn * 10^decpt with decpt above this bound is beyond the
\* largest double, one with decpt below the other bound rounds to zero.
MaxDecpt == 309
MinDecpt == -323
\* Down to this bound a double keeps every digit of a nine-digit decimal.
MinNormalDecpt == -306

RECURSIVE Pow10(_)
Pow10(n) == IF n = 0 THEN 1 ELSE 10 * Pow10(n - 1)

\* float(text) for the decimal m * 10^e of a number's text: a value beyond
\* the largest double is inf, one below the smallest double is zero.
\* Significands have at most nine digits, and the subnormal range, where a
\* double does not keep nine digits, is left out.
ToFloat(neg, m, e) ==
  LET f == Normal(neg, m, e)
      n == Len(IntToStr(f.m))
      decpt == n + f.e
  IN CASE f.m = 0 -> f
       [] decpt > MaxDecpt -> PyInf(neg)
       [] decpt < MinDecpt -> PyFloat(neg, 0, 0)
       [] n <= 9 /\ decpt = MaxDecpt ->
            IF f.m * Pow10(9 - n) > MaxDoubleDigits THEN PyInf(neg) ELSE f
       [] n <= 9 /\ decpt >= MinNormalDecpt /\ decpt < MaxDecpt -> f

\* float.__repr__ of a finite float: the shortest digits that give the float
\* back, in positional notation when the decimal point falls within
\* 0.0001 .. 1e16 and in exponent notation otherwise.
FiniteRepr(v) ==
  LET ds == IntToStr(v.m)
      n == Len(ds)
      decpt == n + v.e
      x == decpt - 1
      ax == IF x < 0 THEN 0 - x ELSE x
      body ==
        IF decpt > -4 /\ decpt <= 16
        THEN IF decpt <= 0 THEN <<"0", ".">> \o Zeros(0 - decpt) \o ds
             ELSE IF decpt >= n THEN ds \o Zeros(decpt - n) \o <<".", "0">>
             ELSE SubSeq(ds, 1, decpt) \o <<".">> \o SubSeq(ds, decpt + 1, n)
        ELSE <<ds[1]>> \o (IF n > 1 THEN <<".">> \o Tail(ds) ELSE <<>>)
               \o <<"e", IF x < 0 THEN "-" ELSE "+">>
               \o (IF ax < 10 THEN <<"0">> ELSE <<>>) \o IntToStr(ax)
  IN (IF v.neg THEN <<"-">> ELSE <<>>) \o body

\* repr(v) of a float.
FloatRepr(v) ==
  CASE v.k = "nan" -> <<"n", "a", "n">>
    [] v.k = "inf" -> (IF v.neg THEN <<"-">> ELSE <<>>) \o <<"i", "n", "f">>
    [] v.k = "fin" -> FiniteRepr(v)

\* ------------------------------------------------------------------- json
\* What json.dumps writes for one character of a string (ensure_ascii).
JsonEscape(c) ==
  CASE c = "\"" -> <<"\\", "\"">>
    [] c = "\\" -> <<"\\", "\\">>
    [] c = "\n" -> <<"\\", "n">>
    [] c = "\r" -> <<"\\", "r">>
    [] c = "\t" -> <<"\\", "t">>
    [] c = "\f" -> <<"\\", "f">>
    [] Ord(c) \in 32..126 -> <<c>>
    [] OTHER -> <<"\\", "u">> \o IntToHex(Ord(c), 4)

\* A string as a JSON string.
EncodeStr(s) ==
  <<"\"">> \o Join([k \in 1..Len(s) |-> JsonEscape(s[k])], <<>>) \o <<"\"">>

\* The keys of a dict in the order json.dumps walks them: the order in
\* which they were put into the dict.
SetToSeq(dct) == dct.ks

RECURSIVE Dumpable(_)
\* Whether json.dumps can serialise v: bytes and ObjectIds are not JSON
\* serialisable.
Dumpable(v) ==
  CASE v.t \in {"none", "bool", "int", "float", "str"} -> TRUE
    [] v.t = "list" -> \A k \in 1..Len(v.l) : Dumpable(v.l[k])
    [] v.t = "dict" -> \A k \in DOMAIN v.d : Dumpable(v.d[k])
    [] OTHER -> FALSE

RECURSIVE Encode(_)
\* The text json.dumps writes for a serialisable value, with the default
\* separators (", " and ": ").
Encode(v) ==
  CASE v.t = "none" -> <<"n", "u", "l", "l">>
    [] v.t = "bool" -> IF v.q THEN <<"t", "r", "u", "e">>
                       ELSE <<"f", "a", "l", "s", "e">>
    [] v.t = "int" -> IntToStr(v.i)
    [] v.t = "float" ->
         IF v.k = "nan" THEN <<"N", "a", "N">>
         ELSE IF v.k = "inf"
         THEN (IF v.neg THEN <<"-">> ELSE <<>>)
                \o <<"I", "n", "f", "i", "n", "i", "t", "y">>
         ELSE FiniteRepr(v)
    [] v.t = "str" -> EncodeStr(v.s)
    [] v.t = "list" ->
         <<"[">> \o Join([k \in 1..Len(v.l) |-> Encode(v.l[k])], <<",", " ">>)
                 \o <<"]">>
    [] v.t = "dict" ->
         LET ks == SetToSeq(v)
         IN <<"{">> \o Join([k \in 1..Len(ks) |->
                               EncodeStr(ks[k]) \o <<":", " ">>
                                 \o Encode(v.d[ks[k]])], <<",", " ">>)
                    \o <<"}">>

\* json.dumps(v): [exc, val].
Dumps(v) ==
  IF Dumpable(v) THEN [exc |-> "none", val |-> PyStr(Encode(v))]
  ELSE [exc |-> "TypeError", val |-> None]

\* A parse result: ok, the value and the position after it; or a failure.
POk(v, p) == [ok |-> TRUE, val |-> v, pos |-> p]
PFail == [ok |-> FALSE, val |-> None, pos |-> 0]

RECURSIVE SkipWs(_, _)
\* The position after the JSON whitespace (space, tab, line feed, carriage
\* return) that starts at position i.
SkipWs(s, i) ==
  IF i <= Len(s) /\ s[i] \in {" ", "\t", "\n", "\r"} THEN SkipWs(s, i + 1) ELSE i

\* s has the literal lit at position i.
HasLit(s, i, lit) ==
  /\ s[i] = lit[1]
  /\ i + Len(lit) - 1 <= Len(s)
  /\ SubSeq(s, i, i + Len(lit) - 1) = lit

RECURSIVE ScanDigits(_, _, _)
\* Reads decimal digits from position i on; acc is the value so far.
ScanDigits(s, i, acc) ==
  IF i <= Len(s) /\ IsDigit(s[i])
  THEN ScanDigits(s, i + 1, acc * 10 + DigitVal(s[i]))
  ELSE POk(PyInt(acc), i)

\* s has a decimal digit at position i.
DigitAt(s, i) == i <= Len(s) /\ IsDigit(s[i])

\* A JSON number at position i: -?(0|[1-9][0-9]*) with an optional fraction
\* (\.[0-9]+) and an optional exponent ([eE][-+]?[0-9]+). Without fraction
\* and exponent it is an int, otherwise the float of the matched text.
ParseNumber(s, i) ==
  LET Number(neg, ip, hasFrac, fp, hasExp, q, ep) ==
        IF ~hasFrac /\ ~hasExp
        THEN POk(PyInt(IF neg THEN 0 - ip.val.i ELSE ip.val.i), ip.pos)
        ELSE POk(ToFloat(neg, fp.val.i,
                         (IF hasExp /\ s[q - 1] = "-" THEN 0 - ep.val.i
                          ELSE ep.val.i)
                           - (IF hasFrac THEN fp.pos - ip.pos - 1 ELSE 0)),
                 ep.pos)
      Exponent(neg, ip, hasFrac, fp, hasExp, q) ==
        Number(neg, ip, hasFrac, fp, hasExp, q,
               IF hasExp THEN ScanDigits(s, q, 0) ELSE POk(PyInt(0), fp.pos))
      ExpDigits(neg, ip, hasFrac, fp, q) ==
        Exponent(neg, ip, hasFrac, fp,
                 fp.pos <= Len(s) /\ s[fp.pos] \in {"e", "E"} /\ DigitAt(s, q), q)
      ExpSign(neg, ip, hasFrac, fp) ==
        ExpDigits(neg, ip, hasFrac, fp,
                  IF fp.pos + 1 <= Len(s) /\ s[fp.pos + 1] \in {"+", "-"}
                  THEN fp.pos + 2 ELSE fp.pos + 1)
      Fraction(neg, ip, hasFrac) ==
        ExpSign(neg, ip, hasFrac,
                IF hasFrac THEN ScanDigits(s, ip.pos + 1, ip.val.i) ELSE ip)
      Point(neg, ip) ==
        Fraction(neg, ip,
                 ip.pos <= Len(s) /\ s[ip.pos] = "." /\ DigitAt(s, ip.pos + 1))
      IntPart(neg, a) ==
        IF s[a] = "0" THEN Point(neg, POk(PyInt(0), a + 1))
        ELSE IF DigitAt(s, a) THEN Point(neg, ScanDigits(s, a, 0))
        ELSE PFail
      Sign(neg) == IF neg /\ i + 1 > Len(s) THEN PFail
                   ELSE IntPart(neg, IF neg THEN i + 1 ELSE i)
  IN Sign(s[i] = "-")

\* The character a backslash escape other than \u stands for.
Backslash ==
  [c \in {"\"", "\\", "/", "f", "n", "r", "t"} |->
     CASE c = "f" -> "\f"
       [] c = "n" -> "\n"
       [] c = "r" -> "\r"
       [] c = "t" -> "\t"
       [] OTHER -> c]

\* s has four hex digits from position i on.
HexAt(s, i) == i + 3 <= Len(s) /\ \A k \in i..(i + 3) : IsHex(s[k])

RECURSIVE ScanString(_, _, _)
\* Reads the characters of a JSON string up to the closing quote (strict
\* mode: a control character inside the string is an error). \uXXXX is the
\* character with that code, a high surrogate followed by a \u low surrogate
\* is the one character the pair encodes.
ScanString(s, i, acc) ==
  IF i > Len(s) THEN PFail
  ELSE IF s[i] = "\"" THEN POk(PyStr(acc), i + 1)
  ELSE IF s[i] = "\\" THEN
    IF i + 1 > Len(s) THEN PFail
    ELSE IF s[i + 1] = "u" THEN
      IF ~HexAt(s, i + 2) THEN PFail
      ELSE LET Pair(uni, low) ==
                 IF low \in 56320..57343
                 THEN ScanString(s, i + 12,
                        Append(acc, Chr(65536 + (uni - 55296) * 1024
                                          + (low - 56320))))
                 ELSE ScanString(s, i + 6, Append(acc, Chr(uni)))
               Unicode(uni) ==
                 Pair(uni, IF /\ uni \in 55296..56319
                              /\ i + 7 <= Len(s)
                              /\ s[i + 6] = "\\" /\ s[i + 7] = "u"
                              /\ HexAt(s, i + 8)
                           THEN HexToInt(SubSeq(s, i + 8, i + 11), 0)
                           ELSE 0)
           IN Unicode(HexToInt(SubSeq(s, i + 2, i + 5), 0))
    ELSE IF s[i + 1] = "b" THEN ScanString(s, i + 2, Append(acc, Chr(8)))
    ELSE IF s[i + 1] \in DOMAIN Backslash
    THEN ScanString(s, i + 2, Append(acc, Backslash[s[i + 1]]))
    ELSE PFail
  ELSE IF Ord(s[i]) < 32 THEN PFail
  ELSE ScanString(s, i + 1, Append(acc, s[i]))

RECURSIVE ParseValue(_, _)
RECURSIVE ParseElements(_, _, _)
RECURSIVE ParseMembers(_, _, _)

\* The elements of an array after "[": value ("," value)* "]".
ParseElements(s, i, acc) ==
  LET Rest(l, j) ==
        IF j > Len(s) THEN PFail
        ELSE IF s[j] = "]" THEN POk(PyList(l), j + 1)
        ELSE IF s[j] = "," THEN ParseElements(s, j + 1, l)
        ELSE PFail
      Element(r) ==
        IF ~r.ok THEN PFail ELSE Rest(Append(acc, r.val), SkipWs(s, r.pos))
  IN Element(ParseValue(s, SkipWs(s, i)))

\* The members of an object after "{": string ":" value ("," ...)* "}".
\* The dict is built from the pairs in their order: a repeated key keeps
\* its first place and its last value.
ParseMembers(s, i, acc) ==
  LET Rest(d, j) ==
        IF j > Len(s) THEN PFail
        ELSE IF s[j] = "}" THEN POk(d, j + 1)
        ELSE IF s[j] = "," THEN ParseMembers(s, j + 1, d)
        ELSE PFail
      Member(k, r) ==
        IF ~r.ok THEN PFail
        ELSE Rest(DictPut(acc, k.val.s, r.val), SkipWs(s, r.pos))
      Colon(k, c) ==
        IF c > Len(s) \/ s[c] # ":" THEN PFail
        ELSE Member(k, ParseValue(s, SkipWs(s, c + 1)))
      Key(k) == IF ~k.ok THEN PFail ELSE Colon(k, SkipWs(s, k.pos))
      Name(a) ==
        IF a > Len(s) \/ s[a] # "\"" THEN PFail
        ELSE Key(ScanString(s, a + 1, <<>>))
  IN Name(SkipWs(s, i))

\* One JSON value starting at position i (no leading whitespace).
ParseValue(s, i) ==
  LET ClosedAt(j, c) == j <= Len(s) /\ s[j] = c
  IN IF i > Len(s) THEN PFail
     ELSE IF s[i] = "\"" THEN ScanString(s, i + 1, <<>>)
     ELSE IF s[i] = "{" THEN
       IF ClosedAt(SkipWs(s, i + 1), "}")
       THEN POk(EmptyDict, SkipWs(s, i + 1) + 1)
       ELSE ParseMembers(s, i + 1, EmptyDict)
     ELSE IF s[i] = "[" THEN
       IF ClosedAt(SkipWs(s, i + 1), "]")
       THEN POk(PyList(<<>>), SkipWs(s, i + 1) + 1)
       ELSE ParseElements(s, i + 1, <<>>)
     ELSE IF HasLit(s, i, <<"n", "u", "l", "l">>) THEN POk(None, i + 4)
     ELSE IF HasLit(s, i, <<"t", "r", "u", "e">>) THEN POk(PyBool(TRUE), i + 4)
     ELSE IF HasLit(s, i, <<"f", "a", "l", "s", "e">>)
     THEN POk(PyBool(FALSE), i + 5)
     ELSE IF IsDigit(s[i]) \/ (s[i] = "-" /\ DigitAt(s, i + 1))
     THEN ParseNumber(s, i)
     ELSE IF HasLit(s, i, <<"N", "a", "N">>) THEN POk(PyNan, i + 3)
     ELSE IF HasLit(s, i, <<"I", "n", "f", "i", "n", "i", "t", "y">>)
     THEN POk(PyInf(FALSE), i + 8)
     ELSE IF HasLit(s, i, <<"-", "I", "n", "f", "i", "n", "i", "t", "y">>)
     THEN POk(PyInf(TRUE), i + 9)
     ELSE PFail

\* bytes.decode('utf-8') of the bytes json.loads is given, a byte written as
\* the character with its code: [exc, val]. A byte outside ASCII does not
\* start a UTF-8 sequence the alphabet can complete, so it is a
\* UnicodeDecodeError, which is a ValueError.
Decode(b) ==
  IF \A k \in 1..Len(b) : Ord(b[k]) < 128
  THEN [exc |-> "none", val |-> PyStr(b)]
  ELSE [exc |-> "ValueError", val |-> None]

\* json.loads of a string: [exc, val]. A string that is not one JSON
\* document raises ValueError.
LoadsStr(s) ==
  LET Document(r) ==
        IF r.ok /\ SkipWs(s, r.pos) = Len(s) + 1
        THEN [exc |-> "none", val |-> r.val]
        ELSE [exc |-> "ValueError", val |-> None]
  IN Document(ParseValue(s, SkipWs(s, 1)))

\* The result of LoadsStr on the decoded text, or the decoding error.
LoadsDecoded(r) == IF r.exc # "none" THEN r ELSE LoadsStr(r.val.s)

\* json.loads(v): [exc, val]. A str is parsed as it is, bytes are decoded
\* first, an argument that is neither str nor bytes raises TypeError.
Loads(v) ==
  IF v.t \in {"str", "bytes"}
  THEN LoadsDecoded(IF v.t = "str" THEN [exc |-> "none", val |-> v]
                    ELSE Decode(v.b))
  ELSE [exc |-> "TypeError", val |-> None]

\* ----------------------------------------------------------- bson ObjectId
\* The part of a generated ObjectId that comes before its counter (time,
\* machine and process bytes), as a number: Oid(n), the n-th id generated, is
\* the number OidBase + n, and its hex form has letters as well as digits.
OidBase == 9

\* str(oid): the number of the id as OidLen lower-case hex digits.
OidHex(n) == IntToHex(OidBase + n, OidLen)

\* ObjectId(v): [exc, val]. None makes a new id (fresh), an ObjectId is
\* copied, a string must be OidLen hex digits in either case, anything else
\* is a TypeError.
ObjectId(v, fresh) ==
  CASE v.t = "none" -> [exc |-> "none", val |-> Oid(fresh)]
    [] v.t = "oid" -> [exc |-> "none", val |-> v]
    [] v.t = "str" ->
         IF Len(v.s) = OidLen /\ \A k \in 1..Len(v.s) : IsHex(v.s[k])
         THEN [exc |-> "none", val |-> Oid(HexToInt(v.s, 0) - OidBase)]
         ELSE [exc |-> "InvalidId", val |-> None]
    [] OTHER -> [exc |-> "TypeError", val |-> None]

\* ------------------------------------------------------------- str and repr
\* The quote repr puts around a string: a double quote when the string has
\* a single quote and no double quote, a single quote otherwise.
ReprQuote(s) ==
  IF (\E k \in 1..Len(s) : s[k] = "'") /\ ~(\E k \in 1..Len(s) : s[k] = "\"")
  THEN "\"" ELSE "'"

\* What repr writes for one character of a str (bytes = FALSE) or one byte
\* of a bytes (bytes = TRUE) inside the quote q.
ReprChar(c, q, bytes) ==
  CASE c = q \/ c = "\\" -> <<"\\", c>>
    [] c = "\t" -> <<"\\", "t">>
    [] c = "\n" -> <<"\\", "n">>
    [] c = "\r" -> <<"\\", "r">>
    [] Ord(c) < 32 \/ (bytes /\ Ord(c) > 126) -> <<"\\", "x">> \o IntToHex(Ord(c), 2)
    [] OTHER -> <<c>>

\* The quoted text of repr for the characters s.
Quoted(s, bytes) ==
  <<ReprQuote(s)>>
    \o Join([k \in 1..Len(s) |-> ReprChar(s[k], ReprQuote(s), bytes)], <<>>)
    \o <<ReprQuote(s)>>

RECURSIVE Repr(_)
\* repr(v)
Repr(v) ==
  CASE v.t = "none" -> <<"N", "o", "n", "e">>
    [] v.t = "bool" -> IF v.q THEN <<"T", "r", "u", "e">>
                       ELSE <<"F", "a", "l", "s", "e">>
    [] v.t = "int" -> IntToStr(v.i)
    [] v.t = "float" -> FloatRepr(v)
    [] v.t = "str" -> Quoted(v.s, FALSE)
    [] v.t = "bytes" -> <<"b">> \o Quoted(v.b, TRUE)
    [] v.t = "oid" ->
         <<"O", "b", "j", "e", "c", "t", "I", "d", "(", "'">>
           \o OidHex(v.n) \o <<"'", ")">>
    [] v.t = "list" ->
         <<"[">> \o Join([k \in 1..Len(v.l) |-> Repr(v.l[k])], <<",", " ">>)
                 \o <<"]">>
    [] v.t = "dict" ->
         <<"{">> \o Join([k \in 1..Len(v.ks) |->
                            Quoted(v.ks[k], FALSE) \o <<":", " ">>
                              \o Repr(v.d[v.ks[k]])], <<",", " ">>)
                 \o <<"}">>

\* str(v): a str is itself, an ObjectId gives its hex form, every other
\* value its repr.
Str(v) ==
  CASE v.t = "str" -> v
    [] v.t = "oid" -> PyStr(OidHex(v.n))
    [] OTHER -> PyStr(Repr(v))

\* ------------------------------------------------------------ Bullet.__init__
\* The keyword arguments of the constructor; an omitted key reads as None,
\* which is what kwargs.get returns for it.
Kwargs(id, headers, uri, method, content, time, file) ==
  [_id |-> id, headers |-> headers, uri |-> uri, method |-> method,
   content |-> content, time |-> time, file |-> file]

\* The headers field after the constructor: [exc, val].
InitHeaders(h) ==
  LET Loaded(r) ==
        IF r.exc # "none" THEN r
        ELSE IF ~IsDict(r.val) THEN [exc |-> "none", val |-> EmptyDict]
        ELSE r
  IN IF Truthy(h) /\ ~IsDict(h) THEN Loaded(Loads(h))
     ELSE [exc |-> "none", val |-> h]

\* Bullet(**kwargs): [exc, obj]; obj is the constructed object when exc is
\* "none".
Bullet(kwargs) ==
  LET Made(hs) ==
        [exc |-> hs.exc,
         obj |-> [id |-> IF Truthy(kwargs._id) THEN Str(kwargs._id)
                         ELSE kwargs._id,
                  headers |-> hs.val,
                  uri |-> kwargs.uri,
                  method |-> kwargs.method,
                  content |-> kwargs.content,
                  time |-> kwargs.time,
                  file |-> kwargs.file]]
  IN Made(InitHeaders(kwargs.headers))

\* --------------------------------------------------------------------- state
VARIABLES
  collection,  \* the documents of db['Bullet'], in insertion order
  fs,          \* the blob store: ObjectId number -> bytes
  nextOid,     \* the next ObjectId the process generates
  handles,     \* the Bullet objects the callers hold
  ret,         \* the last call: [op, h, arg, exc, val]
  saved,       \* history: id -> the Bullet as save() found it, until a
               \* delete() is called on a Bullet with that id
  gen,         \* the generator of all() or get_all_chronologically() the
               \* caller holds
  threads,     \* the frames of the threads that are inside a call
  clock,       \* the class attribute Clock._clock
  clocks,      \* the clock objects created so far
  now,         \* wall time in milliseconds
  readings     \* history: clock -> the last value Clock.check() returned
               \* from it

clockVars == <<clock, clocks, now, readings>>
vars == <<collection, fs, nextOid, handles, ret, saved, gen, threads, clockVars>>

Handles == 1..MaxHandles
Free == [t |-> "free"]
IsObj(h) == handles[h] # Free
\* The slot a new reference goes to: the lowest free one (the slots are
\* names for the callers' references, so which free one is taken is immaterial).
FreeSlot(h) == ~IsObj(h) /\ \A g \in Handles : g < h => IsObj(g)

\* The threads, and the frame of a thread that is in no call.
Threads == 1..MaxThreads
\* A frame: the call the thread is in (op), the store steps the call still
\* has to take (todo), the Bullet the thread holds (self), the Bullet a
\* running delete() acts on (bullet), the str of the blob id save() put
\* (file), the documents a running remove_all() still has to visit (cursor),
\* the clock a running check() has in hand, which is the clock object it has
\* made and not yet assigned or the value of cls._clock it has loaded (clk),
\* and the error that ended the thread's last call (exc).
Frame(op, todo, self, bullet, file, cursor, clk, exc) ==
  [op |-> op, todo |-> todo, self |-> self, bullet |-> bullet, file |-> file,
   cursor |-> cursor, clk |-> clk, exc |-> exc]
Idle == Frame("idle", <<>>, Free, Free, None, <<>>, None, "none")

\* Clock._clock before anything was assigned to it: the class has no such
\* attribute.
Unset == [t |-> "unset"]

Ret(op, h, arg, exc, val) == [op |-> op, h |-> h, arg |-> arg, exc |-> exc, val |-> val]

\* A stored document as the keyword arguments cls(**item) receives.
ItemKwargs(doc) ==
  Kwargs(doc._id, doc.headers, doc.uri, doc.method, None, doc.time, doc.file)

\* collection.find_one({'_id': oid}): the matching documents (at most one).
FindOne(coll, oid) == {k \in 1..Len(coll) : coll[k]._id = oid}

RECURSIVE Without(_, _)
\* collection.remove({'_id': oid}): the collection without that document.
Without(coll, oid) ==
  IF Len(coll) = 0 THEN <<>>
  ELSE IF Head(coll)._id = oid THEN Without(Tail(coll), oid)
  ELSE <<Head(coll)>> \o Without(Tail(coll), oid)

\* fs.delete(oid): the blob store without that blob (no error if absent).
FsDelete(fsys, n) == [k \in DOMAIN fsys \ {n} |-> fsys[k]]

\* fs.put(content): the blob store with a new blob n.
FsPut(fsys, n, content) ==
  [k \in DOMAIN fsys \cup {n} |-> IF k = n THEN content ELSE fsys[k]]

\* fs.exists(oid)
FsExists(fsys, n) == n \in DOMAIN fsys

Init ==
  /\ collection = <<>>
  /\ fs = [k \in {} |-> None]
  /\ nextOid = 1
  /\ handles = [h \in Handles |-> Free]
  /\ ret = Ret("start", 0, None, "none", None)
  /\ saved = [k \in {} |-> None]
  /\ gen = Free
  /\ threads = [t \in Threads |-> Idle]
  /\ clock = Unset
  /\ clocks = <<>>
  /\ now = 0
  /\ readings = [k \in {} |-> 0]

\* ------------------------------------------------------------------- inputs
Uri == PyStr(<<"/", "x">>)
Method == PyStr(<<"G", "E", "T">>)
Times == {PyInt(n) : n \in 1..MaxTime}
Contents == {None, PyBytes(<<>>), PyBytes(<<"x">>), PyBytes(<<"y">>)}
HeaderDict == PyDict(<<<<"a">>>>, [k \in {<<"a">>} |-> PyStr(<<"1">>)])

\* What a producer passes when it captures a request: no _id and no file.
\* Families of captures, each varying what one group of properties is
\* about: the payload, the capture time, the presence of a payload, the
\* headers.
KwContent ==
  {Kwargs(None, HeaderDict, Uri, Method, c, PyInt(1), None) : c \in Contents}
KwTime ==
  {Kwargs(None, HeaderDict, Uri, Method, None, t, None) : t \in Times}
KwBlob ==
  {Kwargs(None, HeaderDict, Uri, Method, c, PyInt(1), None) :
     c \in {None, PyBytes(<<"x">>)}}
KwHeaders ==
  {Kwargs(None, hs, Uri, Method, None, PyInt(1), None) :
     hs \in {None, EmptyDict, HeaderDict, PyBytes(<<>>)}}
    \cup {Kwargs(None, HeaderDict, Uri, Method, PyBytes(<<"x">>), PyInt(1), None)}

\* The shapes of the headers argument: omitted or None, a mapping, the empty
\* mapping, JSON text of a mapping (flat, nested, with a repeated key, with
\* whitespace, escapes and a float), JSON text of other values, the empty
\* string, strings that are not JSON, JSON text as bytes, bytes that are not
\* JSON, and values that are neither a string, bytes nor a mapping.
HeaderInputs ==
  {None, HeaderDict, EmptyDict,
   Dumps(HeaderDict).val,
   PyStr(<<"{", "}">>),
   PyStr(<<" ", "{", "\"", "a", "\"", ":", "[", "1", ",", " ", "n", "u", "l", "l",
           "]", ",", "\"", "a", "\"", ":", "{", "\"", "b", "\"", ":", "2", "}",
           "}", " ">>),
   PyStr(<<"[", "1", "]">>), PyStr(<<"3">>), PyStr(<<"n", "u", "l", "l">>),
   PyStr(<<"\"", "a", "\"">>),
   PyStr(<<>>),
   PyStr(<<"x">>), PyStr(<<"{">>), PyStr(<<"{", "}", "x">>),
   PyStr(<<"{", "\"", "a", "\"", "}">>),
   PyList(<<PyInt(1)>>), PyList(<<>>), PyInt(5), PyInt(0),
   PyStr(<<"{", "\"", "b", "\"", ":", "\t", "-", "1", ".", "5", "e", "1", ",",
           "\n", "\"", "a", "\"", ":", "\"", "\\", "u", "0", "0", "e", "9",
           "\\", "n", "\"", "}">>),
   PyStr(<<"-", "1">>), PyStr(<<"N", "a", "N">>), PyStr(<<"\"", "\n", "\"">>),
   PyBytes(Dumps(HeaderDict).val.s), PyBytes(<<"é">>), PyBytes(<<>>),
   PyBool(TRUE), PyFloat(FALSE, 15, -1)}

\* Every way the constructor is called: by a producer, or with the fields of
\* a stored document (_id and file given).
KwAll ==
  {Kwargs(id, hs, Uri, Method, c, PyInt(1), f) :
     id \in {None, Oid(1)}, hs \in HeaderInputs,
     c \in {None, PyBytes(<<"x">>)}, f \in {None, Str(Oid(2))}}

\* s.upper() for a str over the alphabet: a lower-case letter, e-acute
\* included, becomes its upper-case letter, 32 code points below; every
\* other character stays.
Upper(s) ==
  [k \in 1..Len(s) |->
     IF Ord(s[k]) \in 97..122 \/ Ord(s[k]) = 233
     THEN Chr(Ord(s[k]) - 32) ELSE s[k]]

\* The identities get_by_id is asked for: the string form of every id the
\* process can generate and of one it cannot, the same ids spelled with
\* upper-case hex digits, and strings that are no id (not hex, too long,
\* empty).
Identities ==
  {Str(Oid(n)) : n \in 1..(MaxOid + 1)}
    \cup {PyStr(Upper(Str(Oid(n)).s)) : n \in 1..(MaxOid + 1)}
    \cup {PyStr([k \in 1..OidLen |-> "z"]), PyStr(OidHex(1) \o <<"0">>),
          PyStr(<<>>)}

\* ------------------------------------------------------------------- actions
\* A caller constructs a Bullet and keeps it in the free slot h.
Construct(h, kwargs) ==
  /\ FreeSlot(h)
  /\ \E r \in {Bullet(kwargs)} :
       /\ handles' = IF r.exc = "none" THEN [handles EXCEPT ![h] = r.obj]
                     ELSE handles
       /\ ret' = Ret("construct", h, kwargs, r.exc, None)
  /\ UNCHANGED <<gen, threads, clockVars, collection, fs, nextOid, saved>>

\* The caller drops its reference to the Bullet in slot h.
Discard(h) ==
  /\ IsObj(h)
  /\ handles' = [handles EXCEPT ![h] = Free]
  /\ ret' = Ret("discard", h, None, "none", None)
  /\ UNCHANGED <<gen, threads, clockVars, collection, fs, nextOid, saved>>

\* SaveObj with the 'file' key left out of the document.
SaveObjWithoutFile(b, fileRef) ==
  [headers |-> Dumps(b.headers).val,
   uri |-> b.uri,
   method |-> b.method,
   time |-> b.time,
   file |-> None]

\* The document save() builds: obj, with 'file' only when a blob was put
\* (fileRef is the str of the blob's id, or None).
SaveObj(b, fileRef) ==
  [headers |-> Dumps(b.headers).val,
   uri |-> b.uri,
   method |-> b.method,
   time |-> b.time,
   file |-> fileRef]

\* AfterSave that assigns the id only when the Bullet has none yet.
AfterSaveKeepsId(b, result) ==
  IF b.id = None THEN [b EXCEPT !.id = Str(result)] ELSE b

\* The Bullet after save(): self.id = str(result).
AfterSave(b, result) == [b EXCEPT !.id = Str(result)]

\* Bullet.save()
save(h) ==
  /\ IsObj(h)
  /\ LET b == handles[h]
         dumped == Dumps(b.headers)
         put == Truthy(b.content)
         docOid == IF put THEN nextOid + 1 ELSE nextOid
         obj == SaveObj(b, IF put THEN Str(Oid(nextOid)) ELSE None)
         doc == [_id |-> Oid(docOid), headers |-> obj.headers, uri |-> obj.uri,
                 method |-> obj.method, time |-> obj.time, file |-> obj.file]
         after == AfterSave(b, Oid(docOid))
     IN IF dumped.exc # "none"
        THEN \* json.dumps raised while obj was built: no store was touched
             /\ ret' = Ret("save", h, None, dumped.exc, None)
             /\ UNCHANGED <<collection, fs, nextOid, handles, saved>>
        ELSE /\ docOid <= MaxOid
             /\ fs' = IF put THEN FsPut(fs, nextOid, b.content) ELSE fs
             /\ collection' = Append(collection, doc)
             /\ nextOid' = docOid + 1
             /\ handles' = [handles EXCEPT ![h] = after]
             /\ saved' = [k \in DOMAIN saved \cup {after.id} |->
                            IF k = after.id THEN b ELSE saved[k]]
             /\ ret' = Ret("save", h, None, "none", None)
  /\ UNCHANGED <<gen, threads, clockVars>>

\* HasFileResult without the question to the blob store: true whenever the
\* file reference is set.
HasFileResultNoExists(b, fsys, fresh) ==
  [exc |-> "none", val |-> PyBool(b.file # None)]

\* The value of has_file(): [exc, val].
HasFileResult(b, fsys, fresh) ==
  IF b.file = None THEN [exc |-> "none", val |-> PyBool(FALSE)]
  ELSE LET f == ObjectId(b.file, fresh)
       IN IF f.exc # "none" THEN [exc |-> f.exc, val |-> None]
          ELSE [exc |-> "none", val |-> PyBool(FsExists(fsys, f.val.n))]

\* Bullet.has_file()
has_file(h) ==
  /\ IsObj(h)
  /\ \E r \in {HasFileResult(handles[h], fs, nextOid)} :
       ret' = Ret("has_file", h, None, r.exc, r.val)
  /\ UNCHANGED <<gen, threads, clockVars, collection, fs, nextOid, handles, saved>>

\* GetFileResult without the except clause: the blob store's own error
\* reaches the caller.
GetFileResultUntranslated(b, fsys, fresh) ==
  LET f == ObjectId(b.file, fresh)
  IN IF f.exc # "none" THEN [exc |-> f.exc, val |-> None]
     ELSE IF FsExists(fsys, f.val.n) THEN [exc |-> "none", val |-> fsys[f.val.n]]
     ELSE [exc |-> "GridNoFile", val |-> None]

\* The value of get_file(): [exc, val]; val is what the GridOut reads.
GetFileResult(b, fsys, fresh) ==
  LET f == ObjectId(b.file, fresh)
  IN IF f.exc # "none" THEN [exc |-> f.exc, val |-> None]
     ELSE IF FsExists(fsys, f.val.n) THEN [exc |-> "none", val |-> fsys[f.val.n]]
     ELSE [exc |-> "NoFile", val |-> None]

\* Bullet.get_file()
get_file(h) ==
  /\ IsObj(h)
  /\ \E r \in {GetFileResult(handles[h], fs, nextOid)} :
       ret' = Ret("get_file", h, None, r.exc, r.val)
  /\ UNCHANGED <<gen, threads, clockVars, collection, fs, nextOid, handles, saved>>

\* What delete() does to the two stores: [exc, coll, fs].
DeleteEffect(b, coll, fsys, fresh) ==
  LET i == ObjectId(b.id, fresh)
  IN IF i.exc # "none" THEN [exc |-> i.exc, coll |-> coll, fs |-> fsys]
     ELSE LET c2 == Without(coll, i.val)
          IN IF Truthy(b.file)
             THEN LET f == ObjectId(b.file, fresh)
                  IN IF f.exc # "none"
                     THEN [exc |-> f.exc, coll |-> c2, fs |-> fsys]
                     ELSE [exc |-> "none", coll |-> c2,
                           fs |-> FsDelete(fsys, f.val.n)]
             ELSE [exc |-> "none", coll |-> c2, fs |-> fsys]

\* The history without the ids delete() was called on.
Forget(hist, ids) == [k \in DOMAIN hist \ ids |-> hist[k]]

\* Bullet.delete()
delete(h) ==
  /\ IsObj(h)
  /\ \E r \in {DeleteEffect(handles[h], collection, fs, nextOid)} :
       /\ collection' = r.coll
       /\ fs' = r.fs
       /\ saved' = Forget(saved, {handles[h].id})
       /\ ret' = Ret("delete", h, None, r.exc, None)
  /\ UNCHANGED <<gen, threads, clockVars, nextOid, handles>>

\* Bullet.count()
count ==
  /\ ret' = Ret("count", 0, None, "none", PyInt(Len(collection)))
  /\ UNCHANGED <<gen, threads, clockVars, collection, fs, nextOid, handles, saved>>

\* A generator object: the function it runs (op), whether its body has not
\* started yet ("created"), is suspended at the yield ("running") or has
\* ended ("done"), the documents its cursor received (found) and the number
\* of them the loop has taken (pos). A generator whose body has ended has
\* no frame any more, and with it no cursor.
Generator(op, state, found, pos) ==
  [op |-> op, state |-> state, found |-> found, pos |-> pos]

\* Bullet.all(): the call makes the generator; its body, the query included,
\* does not run before the first next().
all ==
  /\ gen' = Generator("all", "created", <<>>, 0)
  /\ ret' = Ret("all", 0, None, "none", None)
  /\ UNCHANGED <<threads, clockVars, collection, fs, nextOid, handles, saved>>

RECURSIVE RemoveEach(_, _, _, _)
\* The loop of remove_all() after a delete() with effect r: an error ends
\* it, otherwise it goes on with the documents that are left in the cursor.
RemoveRest(r, docs, fresh) ==
  IF r.exc # "none" THEN r ELSE RemoveEach(docs, r.coll, r.fs, fresh)

\* The loop of remove_all() on the next item b that all() makes: an error of
\* the constructor ends the loop with what was deleted so far, otherwise
\* delete() is called on the Bullet.
RemoveYielded(b, docs, coll, fsys, fresh) ==
  IF b.exc # "none" THEN [exc |-> b.exc, coll |-> coll, fs |-> fsys]
  ELSE RemoveRest(DeleteEffect(b.obj, coll, fsys, fresh), docs, fresh)

\* The loop of remove_all() over the documents docs of the cursor: all()
\* constructs the Bullet of one document, the loop deletes it, and only then
\* is the next document taken.
RemoveEach(docs, coll, fsys, fresh) ==
  IF Len(docs) = 0 THEN [exc |-> "none", coll |-> coll, fs |-> fsys]
  ELSE RemoveYielded(Bullet(ItemKwargs(Head(docs))), Tail(docs), coll, fsys, fresh)

\* What remove_all() does to the two stores: [exc, coll, fs]. The cursor of
\* all() receives the documents of the collection when the loop starts.
RemoveAllEffect(coll, fsys, fresh) == RemoveEach(coll, coll, fsys, fresh)

\* Bullet.remove_all(), called by the one caller of the sequential
\* specifications: nothing else runs between its store calls.
remove_all ==
  /\ \E r \in {RemoveAllEffect(collection, fs, nextOid)} :
       /\ collection' = r.coll
       /\ fs' = r.fs
       /\ saved' = Forget(saved, {k \in DOMAIN saved :
                            \A j \in 1..Len(r.coll) : Str(r.coll[j]._id) # k})
       /\ ret' = Ret("remove_all", 0, None, r.exc, None)
  /\ UNCHANGED <<gen, threads, clockVars, nextOid, handles>>

\* GetByIdResult without the except clause: InvalidId reaches the caller.
GetByIdResultUncaught(identity, coll, fresh) ==
  LET i == ObjectId(identity, fresh)
  IN IF i.exc # "none" THEN [exc |-> i.exc, obj |-> None]
     ELSE LET result == FindOne(coll, i.val)
          IN IF result # {}
             THEN Bullet(ItemKwargs(coll[CHOOSE k \in result : TRUE]))
             ELSE [exc |-> "NotFound", obj |-> None]

\* The outcome of get_by_id(identity): [exc, obj].
GetByIdResult(identity, coll, fresh) ==
  LET i == ObjectId(identity, fresh)
  IN IF i.exc = "InvalidId" THEN [exc |-> "NotFound", obj |-> None]
     ELSE IF i.exc # "none" THEN [exc |-> i.exc, obj |-> None]
     ELSE LET result == FindOne(coll, i.val)
          IN IF result # {}
             THEN Bullet(ItemKwargs(coll[CHOOSE k \in result : TRUE]))
             ELSE [exc |-> "NotFound", obj |-> None]

\* Bullet.get_by_id(identity); the caller keeps the Bullet in the free slot h.
get_by_id(identity, h) ==
  /\ FreeSlot(h)
  /\ \E r \in {GetByIdResult(identity, collection, nextOid)} :
       /\ handles' = IF r.exc = "none" THEN [handles EXCEPT ![h] = r.obj]
                     ELSE handles
       /\ ret' = Ret("get_by_id", h, identity, r.exc, None)
  /\ UNCHANGED <<gen, threads, clockVars, collection, fs, nextOid, saved>>

\* The store's order of two 'time' values: null sorts before every number.
TimeLeq(a, b) ==
  \/ a.t = "none"
  \/ a.t = "int" /\ b.t = "int" /\ a.i <= b.i

\* Whether time a may come before time b in a cursor sorted by 'time';
\* direction 1 is pymongo.ASCENDING, -1 pymongo.DESCENDING.
InOrder(a, b, direction) ==
  IF direction = 1 THEN TimeLeq(a, b) ELSE TimeLeq(b, a)

\* The orders in which n documents can be listed.
PermsOf == [n \in 0..MaxOid |-> Permutations(1..n)]

\* SortedOrders with the sort left out: the cursor's natural order.
SortedOrdersNatural(coll, direction) == {[k \in 1..Len(coll) |-> k]}

\* find().sort('time', direction): every order of the documents' positions
\* that is sorted by time. The order of documents with equal times is the
\* store's choice.
SortedOrders(coll, direction) ==
  {p \in PermsOf[Len(coll)] :
     \A k \in 1..(Len(coll) - 1) :
       InOrder(coll[p[k]].time, coll[p[k + 1]].time, direction)}

\* find().limit(1).sort('time', direction): the positions of the documents
\* that can be the first of a sorted order.
First(coll, direction) ==
  {k \in 1..Len(coll) :
     \A j \in 1..Len(coll) : InOrder(coll[k].time, coll[j].time, direction)}

\* Bullet.get_all_chronologically(): the call makes the generator.
get_all_chronologically ==
  /\ gen' = Generator("get_all_chronologically", "created", <<>>, 0)
  /\ ret' = Ret("get_all_chronologically", 0, None, "none", None)
  /\ UNCHANGED <<threads, clockVars, collection, fs, nextOid, handles, saved>>

\* The documents the cursor of a generator can receive when its query runs
\* on coll: find() in the store's natural (insertion) order for all(),
\* find().sort('time', ASCENDING) for get_all_chronologically(). The
\* documents arrive in one batch.
Found(op, coll) ==
  IF op = "all" THEN {coll}
  ELSE {[k \in 1..Len(coll) |-> coll[order[k]]] : order \in SortedOrders(coll, 1)}

\* The generator g resumed with the documents found in its cursor:
\* [gen, exc, obj]. An exhausted cursor ends the body (StopIteration), an
\* error of the constructor ends it with that error, otherwise the Bullet of
\* the next document is yielded.
Resume(g, found) ==
  IF g.pos = Len(found)
  THEN [gen |-> Generator(g.op, "done", <<>>, 0),
        exc |-> "StopIteration", obj |-> None]
  ELSE LET r == Bullet(ItemKwargs(found[g.pos + 1]))
       IN IF r.exc # "none"
          THEN [gen |-> Generator(g.op, "done", <<>>, 0),
                exc |-> r.exc, obj |-> None]
          ELSE [gen |-> Generator(g.op, "running", found, g.pos + 1),
                exc |-> "none", obj |-> r.obj]

\* The outcomes of next() on the generator g: the first next() runs the
\* query, a generator that has ended raises StopIteration.
NextResults(g, coll) ==
  CASE g.state = "created" -> {Resume(g, found) : found \in Found(g.op, coll)}
    [] g.state = "running" -> {Resume(g, g.found)}
    [] g.state = "done" -> {[gen |-> g, exc |-> "StopIteration", obj |-> None]}

\* next() on the generator the caller holds, as the caller's for loop or
\* list() calls it; the caller keeps the Bullet it receives in the free
\* slot h, or does not keep it (h = 0).
GeneratorNext(h) ==
  /\ gen # Free
  /\ IF h = 0 THEN TRUE ELSE FreeSlot(h)
  /\ \E r \in NextResults(gen, collection) :
       /\ gen' = r.gen
       /\ handles' = IF r.exc = "none" /\ h # 0
                     THEN [handles EXCEPT ![h] = r.obj]
                     ELSE handles
       /\ ret' = Ret("next", h, None, r.exc, r.obj)
  /\ UNCHANGED <<threads, clockVars, collection, fs, nextOid, saved>>

\* GetLatestResults sorting the wrong way round (ASCENDING).
GetLatestResultsAscending(coll) ==
  IF Len(coll) = 0 THEN {[exc |-> "NotFound", obj |-> None]}
  ELSE {Bullet(ItemKwargs(coll[k])) : k \in First(coll, 1)}

\* The outcomes of get_latest(): find().limit(1).sort('time', DESCENDING)
\* yields the first document of a descending order, which is returned; an
\* empty cursor ends the loop and NotFound is raised.
GetLatestResults(coll) ==
  IF Len(coll) = 0 THEN {[exc |-> "NotFound", obj |-> None]}
  ELSE {Bullet(ItemKwargs(coll[k])) : k \in First(coll, -1)}

\* Bullet.get_latest(); the caller keeps the Bullet in the free slot h.
get_latest(h) ==
  /\ FreeSlot(h)
  /\ \E r \in GetLatestResults(collection) :
       /\ handles' = IF r.exc = "none" THEN [handles EXCEPT ![h] = r.obj]
                     ELSE handles
       /\ ret' = Ret("get_latest", h, None, r.exc, None)
  /\ UNCHANGED <<gen, threads, clockVars, collection, fs, nextOid, saved>>

\* ------------------------------------------- the store steps of the calls
\* Ids the threads' calls may generate: one per thread and a document and a
\* blob besides.
ThreadOids == MaxThreads + 2

\* SaveProgram with the two store steps the other way round.
SaveProgramInsertFirst(b) ==
  <<"insert">> \o (IF Truthy(b.content) THEN <<"put">> ELSE <<>>)

\* The store steps of save() on Bullet b, in program order: fs.put when the
\* content is truthy, then the insert.
SaveProgram(b) ==
  (IF Truthy(b.content) THEN <<"put">> ELSE <<>>) \o <<"insert">>

\* DeleteProgram that leaves the blob alone.
DeleteProgramMetadataOnly(b) == <<"remove">>

\* DeleteProgram with the two store steps the other way round.
DeleteProgramBlobFirst(b) ==
  (IF Truthy(b.file) THEN <<"fs_delete">> ELSE <<>>) \o <<"remove">>

\* The store steps of delete() on Bullet b, in program order: the remove,
\* then fs.delete when the file is truthy.
DeleteProgram(b) ==
  <<"remove">> \o (IF Truthy(b.file) THEN <<"fs_delete">> ELSE <<>>)

RECURSIVE IdsOwed(_, _)
\* The ids the running save() calls of threads 1..k have still to generate.
IdsOwed(ths, k) ==
  IF k = 0 THEN 0
  ELSE (IF ths[k].op = "save" THEN Len(ths[k].todo) ELSE 0) + IdsOwed(ths, k - 1)

\* The frame after the call it is in has returned or raised exc.
Return(fr, exc) ==
  [fr EXCEPT !.op = "idle", !.todo = <<>>, !.bullet = Free, !.file = None,
             !.cursor = <<>>, !.clk = None, !.exc = exc]

\* The frame of a remove_all() whose generator made r of the next document:
\* an error of the constructor ends the call, otherwise delete() is called
\* on the Bullet.
Visit(fr, r) ==
  IF r.exc # "none" THEN Return(fr, r.exc)
  ELSE [fr EXCEPT !.bullet = r.obj, !.todo = DeleteProgram(r.obj),
                  !.cursor = Tail(fr.cursor)]

\* The frame of a remove_all() that takes the next document of its cursor:
\* the generator yields cls(**item) and the loop calls delete() on it; when
\* the cursor is exhausted the call returns.
NextItem(fr) ==
  IF Len(fr.cursor) = 0 THEN Return(fr, "none")
  ELSE Visit(fr, Bullet(ItemKwargs(Head(fr.cursor))))

\* The frame after the store step at the head of todo succeeded.
Advance(fr) ==
  IF Len(fr.todo) > 1 THEN [fr EXCEPT !.todo = Tail(fr.todo)]
  ELSE IF fr.op = "remove_all" THEN NextItem([fr EXCEPT !.todo = <<>>])
  ELSE Return(fr, "none")

\* What the caller of thread t's call sees when the call has left frame fr:
\* the call's outcome replaces ret when the call has ended.
Returned(t, fr, arg, val) ==
  IF fr.op = "idle" THEN Ret(threads[t].op, t, arg, fr.exc, val) ELSE ret

\* Thread t is at store step step of a call.
At(t, step) == Len(threads[t].todo) > 0 /\ Head(threads[t].todo) = step

\* Thread t constructs a Bullet and holds it.
TConstruct(t, kwargs) ==
  /\ threads[t].op = "idle" /\ threads[t].self = Free
  /\ \E r \in {Bullet(kwargs)} :
       /\ r.exc = "none"
       /\ threads' = [threads EXCEPT ![t] = [threads[t] EXCEPT !.self = r.obj]]
  /\ UNCHANGED <<gen, collection, fs, nextOid, handles, ret, saved, clockVars>>

\* Thread t drops the Bullet it holds.
TDiscard(t) ==
  /\ threads[t].op = "idle" /\ threads[t].self # Free
  /\ threads' = [threads EXCEPT ![t] = [threads[t] EXCEPT !.self = Free]]
  /\ UNCHANGED <<gen, collection, fs, nextOid, handles, ret, saved, clockVars>>

\* Thread t calls save() on the Bullet it holds, which has no id yet.
SaveCall(t) ==
  /\ threads[t].op = "idle" /\ threads[t].self # Free
  /\ threads[t].self.id = None
  /\ (nextOid - 1) + IdsOwed(threads, MaxThreads)
       + Len(SaveProgram(threads[t].self)) <= ThreadOids
  /\ \E dumped \in {Dumps(threads[t].self.headers)} :
       IF dumped.exc # "none"
       THEN \* json.dumps raised while obj was built: the call is over
            /\ threads' = [threads EXCEPT ![t] =
                             [threads[t] EXCEPT !.exc = dumped.exc]]
            /\ ret' = Ret("save", t, None, dumped.exc, None)
       ELSE /\ threads' = [threads EXCEPT ![t] =
                             [threads[t] EXCEPT !.op = "save",
                                               !.todo = SaveProgram(threads[t].self),
                                               !.file = None, !.exc = "none"]]
            /\ ret' = ret
  /\ UNCHANGED <<gen, collection, fs, nextOid, handles, saved, clockVars>>

\* The frame of save() after fs.put returned the blob id n:
\* obj['file'] = str(file_obj).
PutDone(fr, n) == [fr EXCEPT !.file = Str(Oid(n))]

\* save(), the blob write: file_obj = fs.put(self.content).
SavePut(t) ==
  /\ threads[t].op = "save" /\ At(t, "put")
  /\ fs' = FsPut(fs, nextOid, threads[t].self.content)
  /\ nextOid' = nextOid + 1
  /\ threads' = [threads EXCEPT ![t] = Advance(PutDone(threads[t], nextOid))]
  /\ UNCHANGED <<gen, collection, handles, ret, saved, clockVars>>

\* save(), the metadata insert and the assignment of its result to self.id.
SaveInsert(t) ==
  /\ threads[t].op = "save" /\ At(t, "insert")
  /\ LET b == threads[t].self
         obj == SaveObj(b, threads[t].file)
         doc == [_id |-> Oid(nextOid), headers |-> obj.headers, uri |-> obj.uri,
                 method |-> obj.method, time |-> obj.time, file |-> obj.file]
         after == AfterSave(b, Oid(nextOid))
     IN /\ collection' = Append(collection, doc)
        /\ nextOid' = nextOid + 1
        /\ \E fr \in {Advance([threads[t] EXCEPT !.self = after])} :
             /\ threads' = [threads EXCEPT ![t] = fr]
             /\ ret' = Returned(t, fr, None, None)
        /\ saved' = [k \in DOMAIN saved \cup {after.id} |->
                       IF k = after.id THEN b ELSE saved[k]]
  /\ UNCHANGED <<gen, fs, handles, clockVars>>

\* SaveInsertFails with a rollback: the blob the call wrote is deleted
\* before the error leaves save().
SaveInsertFailsRollsBack(t) ==
  /\ threads[t].op = "save" /\ At(t, "insert")
  /\ \E fr \in {Return(threads[t], "OperationFailure")} :
       /\ threads' = [threads EXCEPT ![t] = fr]
       /\ ret' = Returned(t, fr, None, None)
  /\ fs' = IF threads[t].file = None THEN fs
           ELSE FsDelete(fs, ObjectId(threads[t].file, nextOid).val.n)
  /\ UNCHANGED <<gen, collection, nextOid, handles, saved, clockVars>>

\* save(), the metadata insert fails: the store's error leaves save() at
\* once, nothing is caught.
SaveInsertFails(t) ==
  /\ threads[t].op = "save" /\ At(t, "insert")
  /\ \E fr \in {Return(threads[t], "OperationFailure")} :
       /\ threads' = [threads EXCEPT ![t] = fr]
       /\ ret' = Returned(t, fr, None, None)
  /\ UNCHANGED <<gen, collection, fs, nextOid, handles, saved, clockVars>>

\* Thread t calls delete() on the Bullet it holds.
DeleteCall(t) ==
  /\ threads[t].op = "idle" /\ threads[t].self # Free
  /\ threads' = [threads EXCEPT ![t] =
                   [threads[t] EXCEPT !.op = "delete",
                                     !.bullet = threads[t].self,
                                     !.todo = DeleteProgram(threads[t].self),
                                     !.exc = "none"]]
  /\ UNCHANGED <<gen, collection, fs, nextOid, handles, ret, saved, clockVars>>

\* delete(), the metadata remove: col.remove({'_id': ObjectId(self.id)}).
DeleteRemove(t) ==
  /\ threads[t].op \in {"delete", "remove_all"} /\ At(t, "remove")
  /\ \E i \in {ObjectId(threads[t].bullet.id, nextOid)} :
       \E fr \in {IF i.exc # "none" THEN Return(threads[t], i.exc)
                  ELSE Advance(threads[t])} :
         /\ collection' = IF i.exc # "none" THEN collection
                          ELSE Without(collection, i.val)
         /\ saved' = IF i.exc # "none" THEN saved
                     ELSE Forget(saved, {threads[t].bullet.id})
         /\ threads' = [threads EXCEPT ![t] = fr]
         /\ ret' = Returned(t, fr, None, None)
  /\ UNCHANGED <<gen, fs, nextOid, handles, clockVars>>

\* delete(), the blob delete: fs.delete(ObjectId(self.file)).
DeleteFs(t) ==
  /\ threads[t].op \in {"delete", "remove_all"} /\ At(t, "fs_delete")
  /\ \E f \in {ObjectId(threads[t].bullet.file, nextOid)} :
       \E fr \in {IF f.exc # "none" THEN Return(threads[t], f.exc)
                  ELSE Advance(threads[t])} :
         /\ fs' = IF f.exc # "none" THEN fs ELSE FsDelete(fs, f.val.n)
         /\ threads' = [threads EXCEPT ![t] = fr]
         /\ ret' = Returned(t, fr, None, None)
  /\ UNCHANGED <<gen, collection, nextOid, handles, saved, clockVars>>

\* delete(), a store step fails: the store's error leaves delete(), and a
\* remove_all() that called it, at once.
DeleteFails(t) ==
  /\ threads[t].op \in {"delete", "remove_all"}
  /\ At(t, "remove") \/ At(t, "fs_delete")
  /\ \E fr \in {Return(threads[t], "OperationFailure")} :
       /\ threads' = [threads EXCEPT ![t] = fr]
       /\ ret' = Returned(t, fr, None, None)
  /\ UNCHANGED <<gen, collection, fs, nextOid, handles, saved, clockVars>>

\* Thread t calls remove_all(): the generator of all() has not run yet.
RemoveAllCall(t) ==
  /\ threads[t].op = "idle"
  /\ threads' = [threads EXCEPT ![t] =
                   [threads[t] EXCEPT !.op = "remove_all", !.todo = <<"find">>,
                                     !.exc = "none"]]
  /\ UNCHANGED <<gen, collection, fs, nextOid, handles, ret, saved, clockVars>>

\* remove_all(), the query: the first step of the loop runs find() and the
\* cursor receives the documents of the collection in one batch.
RemoveAllFind(t) ==
  /\ threads[t].op = "remove_all" /\ At(t, "find")
  /\ \E fr \in {NextItem([threads[t] EXCEPT !.todo = <<>>,
                                              !.cursor = collection])} :
       /\ threads' = [threads EXCEPT ![t] = fr]
       /\ ret' = Returned(t, fr, None, None)
  /\ UNCHANGED <<gen, collection, fs, nextOid, handles, saved, clockVars>>

\* ------------------------------------------------ MilisecondsClock and Clock
\* A reference to the k-th clock object created.
Ref(k) == [t |-> "ref", r |-> k]

\* MilisecondsClock(offset) constructed at wall time t:
\* self._zero = self._get_timestamp() - offset.
MilisecondsClock(offset, t) == [kind |-> "MilisecondsClock", zero |-> t - offset]

\* A test double: an object whose check() returns a value of its own.
FakeClock(value) == [kind |-> "fake", value |-> value]

\* ClockCheck counting from the wall time down to the clock's zero.
ClockCheckBackwards(obj, t) ==
  IF obj.kind = "MilisecondsClock" THEN obj.zero - t ELSE obj.value

\* obj.check() at wall time t; for a MilisecondsClock
\* self._get_timestamp() - self._zero.
ClockCheck(obj, t) ==
  IF obj.kind = "MilisecondsClock" THEN t - obj.zero ELSE obj.value

\* not hasattr(cls, '_clock') or cls._clock is None
Uninitialized(c) == c = Unset \/ c = None

\* InstallDefault that installs a new default clock whatever is installed.
InstallDefaultAlways(c, cs, t) ==
  [clock |-> Ref(Len(cs) + 1), clocks |-> Append(cs, MilisecondsClock(0, t))]

\* cls.initialize(MilisecondsClock()) at wall time t: a new clock object is
\* made and assigned. [clock, clocks] afterwards.
NewDefault(cs, t) ==
  [clock |-> Ref(Len(cs) + 1), clocks |-> Append(cs, MilisecondsClock(0, t))]

\* The first statement of Clock.check() at wall time t, on the attribute c
\* and the clock objects cs: a default clock is installed when the singleton
\* is uninitialized. [clock, clocks] afterwards.
InstallDefault(c, cs, t) ==
  IF Uninitialized(c) THEN NewDefault(cs, t) ELSE [clock |-> c, clocks |-> cs]

\* return cls._clock.check() at wall time t: [exc, val, from]; None has no
\* attribute check. from is the clock the reading was taken from.
Delegate(c, cs, t) ==
  IF c = None THEN [exc |-> "AttributeError", val |-> None, from |-> None]
  ELSE [exc |-> "none", val |-> PyInt(ClockCheck(cs[c.r], t)), from |-> c]

\* The history after a check() with outcome r.
Read(hist, r) ==
  IF r.exc # "none" THEN hist
  ELSE [k \in DOMAIN hist \cup {r.from.r} |->
          IF k = r.from.r THEN r.val.i ELSE hist[k]]

\* The clocks a caller makes to pass to initialize() at wall time t.
ClockInputs(t) == {MilisecondsClock(0, t), MilisecondsClock(1, t), FakeClock(5)}

\* Wall time passes.
Tick ==
  /\ now < MaxNow
  /\ now' = now + 1
  /\ UNCHANGED <<gen, collection, fs, nextOid, handles, ret, saved, threads,
                 clock, clocks, readings>>

\* Clock.initialize(clock) with a clock object made for the call.
initialize(obj) ==
  /\ Len(clocks) < MaxClocks
  /\ clocks' = Append(clocks, obj)
  /\ clock' = Ref(Len(clocks) + 1)
  /\ ret' = Ret("initialize", 0, Ref(Len(clocks) + 1), "none", None)
  /\ UNCHANGED <<gen, collection, fs, nextOid, handles, saved, threads, now, readings>>

\* Clock.initialize(clock) with a clock object that exists already.
reinitialize(k) ==
  /\ clock' = Ref(k)
  /\ ret' = Ret("initialize", 0, Ref(k), "none", None)
  /\ UNCHANGED <<gen, collection, fs, nextOid, handles, saved, threads, now,
                 clocks, readings>>

\* Clock.check(). A call that installs the default clock reads the wall
\* time twice, for the clock's zero and for the reading; wall time may pass
\* between the two (t is the time of the second).
check ==
  /\ Uninitialized(clock) => Len(clocks) < MaxClocks
  /\ \E t \in (IF Uninitialized(clock) THEN now..MaxNow ELSE {now}) :
       \E i \in {InstallDefault(clock, clocks, now)} :
         \E r \in {Delegate(i.clock, i.clocks, t)} :
           /\ clock' = i.clock
           /\ clocks' = i.clocks
           /\ now' = t
           /\ ret' = Ret("check", 0, r.from, r.exc, r.val)
           /\ readings' = Read(readings, r)
  /\ UNCHANGED <<gen, collection, fs, nextOid, handles, saved, threads>>

\* Clock.cleanup()
cleanup ==
  /\ clock' = None
  /\ ret' = Ret("cleanup", 0, None, "none", None)
  /\ UNCHANGED <<gen, collection, fs, nextOid, handles, saved, threads, now,
                 clocks, readings>>

\* ------------------------------------------- the steps of Clock's methods
\* The statements of check() that follow its test of the attribute c:
\* line 201 makes the default clock, which reads the wall time, and then
\* assigns it; line 202 loads cls._clock and then calls its check(), which
\* reads the wall time.
CheckProgram(c) ==
  IF Uninitialized(c) THEN <<"construct", "install", "load", "delegate">>
  ELSE <<"load", "delegate">>

RECURSIVE ClocksOwed(_, _)
\* The clocks the running check() calls of threads 1..k may still install.
ClocksOwed(ths, k) ==
  IF k = 0 THEN 0
  ELSE (IF ths[k].op = "check"
             /\ Head(ths[k].todo) \in {"test", "construct", "install"}
        THEN 1 ELSE 0) + ClocksOwed(ths, k - 1)

\* Thread t calls Clock.check().
CheckCall(t) ==
  /\ threads[t].op = "idle"
  /\ Len(clocks) + ClocksOwed(threads, MaxThreads) < MaxClocks
  /\ threads' = [threads EXCEPT ![t] =
                   [threads[t] EXCEPT !.op = "check", !.todo = <<"test">>,
                                     !.exc = "none"]]
  /\ UNCHANGED <<gen, collection, fs, nextOid, handles, ret, saved, clockVars>>

\* check(), the test: not hasattr(cls, '_clock') or cls._clock is None.
CheckTest(t) ==
  /\ threads[t].op = "check" /\ At(t, "test")
  /\ threads' = [threads EXCEPT ![t] =
                   [threads[t] EXCEPT !.todo = CheckProgram(clock)]]
  /\ UNCHANGED <<gen, collection, fs, nextOid, handles, ret, saved, clockVars>>

\* The frame that has the clock object or reference c in hand.
Holding(fr, c) == [fr EXCEPT !.clk = c]

\* check(), the argument of line 201: MilisecondsClock() reads the wall time
\* for its zero; the object is not assigned yet.
CheckConstruct(t) ==
  /\ threads[t].op = "check" /\ At(t, "construct")
  /\ threads' = [threads EXCEPT ![t] =
                   Advance(Holding(threads[t], MilisecondsClock(0, now)))]
  /\ UNCHANGED <<gen, collection, fs, nextOid, handles, ret, saved, clockVars>>

\* check(), the assignment of line 201: cls.initialize(clock) with the clock
\* the thread has made.
CheckInstall(t) ==
  /\ threads[t].op = "check" /\ At(t, "install")
  /\ clocks' = Append(clocks, threads[t].clk)
  /\ clock' = Ref(Len(clocks) + 1)
  /\ threads' = [threads EXCEPT ![t] = Advance(Holding(threads[t], None))]
  /\ UNCHANGED <<gen, collection, fs, nextOid, handles, ret, saved, now, readings>>

\* check(), the first half of line 202: cls._clock is loaded and its check
\* attribute looked up, which None does not have.
CheckLoad(t) ==
  /\ threads[t].op = "check" /\ At(t, "load")
  /\ \E fr \in {IF clock = None THEN Return(threads[t], "AttributeError")
                ELSE Advance(Holding(threads[t], clock))} :
       /\ threads' = [threads EXCEPT ![t] = fr]
       /\ ret' = Returned(t, fr, None, None)
  /\ UNCHANGED <<gen, collection, fs, nextOid, handles, saved, clockVars>>

\* check(), the second half of line 202: the loaded clock's check() reads
\* the wall time, and its value is returned.
CheckDelegate(t) ==
  /\ threads[t].op = "check" /\ At(t, "delegate")
  /\ \E r \in {Delegate(threads[t].clk, clocks, now)} :
       /\ threads' = [threads EXCEPT ![t] = Return(threads[t], r.exc)]
       /\ ret' = Ret("check", t, r.from, r.exc, r.val)
       /\ readings' = Read(readings, r)
  /\ UNCHANGED <<gen, collection, fs, nextOid, handles, saved, clock, clocks, now>>

\* Thread t calls Clock.initialize(clock) with a clock object made for the
\* call: one assignment.
TInitialize(t, obj) ==
  /\ threads[t].op = "idle"
  /\ Len(clocks) + ClocksOwed(threads, MaxThreads) < MaxClocks
  /\ clocks' = Append(clocks, obj)
  /\ clock' = Ref(Len(clocks) + 1)
  /\ ret' = Ret("initialize", t, Ref(Len(clocks) + 1), "none", None)
  /\ UNCHANGED <<gen, collection, fs, nextOid, handles, saved, threads, now, readings>>

\* Thread t calls Clock.cleanup(): one assignment.
TCleanup(t) ==
  /\ threads[t].op = "idle"
  /\ clock' = None
  /\ ret' = Ret("cleanup", t, None, "none", None)
  /\ UNCHANGED <<gen, collection, fs, nextOid, handles, saved, threads, now, clocks,
                 readings>>

\* ------------------------------------------------------------ specifications
\* save() as its contract has it called: on a Bullet that has no id yet.
FirstSave(h) == IsObj(h) /\ handles[h].id = None /\ save(h)

\* Every operation, by callers that keep the contract of save().
Next ==
  \/ \E h \in Handles, kwargs \in KwContent : Construct(h, kwargs)
  \/ \E h \in Handles : Discard(h)
  \/ \E h \in Handles : FirstSave(h)
  \/ \E h \in Handles : has_file(h)
  \/ \E h \in Handles : get_file(h)
  \/ \E h \in Handles : delete(h)
  \/ count
  \/ all
  \/ remove_all
  \/ \E h \in Handles, identity \in Identities : get_by_id(identity, h)
  \/ get_all_chronologically
  \/ \E h \in Handles \cup {0} : GeneratorNext(h)
  \/ \E h \in Handles : get_latest(h)

Spec == Init /\ [][Next]_vars

\* Records and their blobs: captures that differ in their payload are saved,
\* looked up by id, read and deleted.
NextBlob ==
  \/ \E h \in Handles, kwargs \in KwContent : Construct(h, kwargs)
  \/ \E h \in Handles : Discard(h)
  \/ \E h \in Handles : FirstSave(h)
  \/ \E h \in Handles : has_file(h)
  \/ \E h \in Handles : get_file(h)
  \/ \E h \in Handles : delete(h)
  \/ \E h \in Handles, identity \in Identities : get_by_id(identity, h)

SpecBlob == Init /\ [][NextBlob]_vars

\* Ordering by time: captures that differ in their time are saved and
\* deleted in any order, and queried.
NextTime ==
  \/ \E h \in Handles, kwargs \in KwTime : Construct(h, kwargs)
  \/ \E h \in Handles : Discard(h)
  \/ \E h \in Handles : FirstSave(h)
  \/ \E h \in Handles : delete(h)
  \/ \E h \in Handles : get_latest(h)

SpecTime == Init /\ [][NextTime]_vars

\* The chronological listing: captures that differ in their time are saved
\* and deleted in any order, and the listing is made and consumed item by
\* item, the caller keeping the Bullets it receives or not, with other
\* calls in between.
NextChrono ==
  \/ \E h \in Handles, kwargs \in KwTime : Construct(h, kwargs)
  \/ \E h \in Handles : Discard(h)
  \/ \E h \in Handles : FirstSave(h)
  \/ \E h \in Handles : delete(h)
  \/ get_all_chronologically
  \/ \E h \in Handles \cup {0} : GeneratorNext(h)

SpecChrono == Init /\ [][NextChrono]_vars

\* Retrieval of the fields: captures that differ in their headers are saved
\* and looked up by id.
NextHeaders ==
  \/ \E h \in Handles, kwargs \in KwHeaders : Construct(h, kwargs)
  \/ \E h \in Handles : Discard(h)
  \/ \E h \in Handles : FirstSave(h)
  \/ \E h \in Handles : delete(h)
  \/ \E h \in Handles, identity \in Identities : get_by_id(identity, h)

SpecHeaders == Init /\ [][NextHeaders]_vars

\* The constructor alone, on every shape of its arguments.
NextConstruct ==
  \/ \E h \in Handles, kwargs \in KwAll : Construct(h, kwargs)
  \/ \E h \in Handles : Discard(h)

SpecConstruct == Init /\ [][NextConstruct]_vars

\* Callers that also save a Bullet that already has an id.
NextResave ==
  \/ \E h \in Handles, kwargs \in KwContent : Construct(h, kwargs)
  \/ \E h \in Handles : Discard(h)
  \/ \E h \in Handles : save(h)
  \/ \E h \in Handles : has_file(h)
  \/ \E h \in Handles : get_file(h)
  \/ \E h \in Handles : delete(h)

SpecResave == Init /\ [][NextResave]_vars

\* Concurrent producers: every thread captures requests and saves them, the
\* store steps of the saves interleaved, with no store failure.
NextConcSave ==
  \/ \E t \in Threads, kwargs \in KwContent : TConstruct(t, kwargs)
  \/ \E t \in Threads : TDiscard(t)
  \/ \E t \in Threads : SaveCall(t)
  \/ \E t \in Threads : SavePut(t)
  \/ \E t \in Threads : SaveInsert(t)

SpecConcSave == Init /\ [][NextConcSave]_vars


\* Producers whose metadata insert may fail.
NextSaveFail ==
  \/ \E t \in Threads, kwargs \in KwBlob : TConstruct(t, kwargs)
  \/ \E t \in Threads : TDiscard(t)
  \/ \E t \in Threads : SaveCall(t)
  \/ \E t \in Threads : SavePut(t)
  \/ \E t \in Threads : SaveInsert(t)
  \/ \E t \in Threads : SaveInsertFails(t)

SpecSaveFail == Init /\ [][NextSaveFail]_vars

\* Stale references: Bullets are saved and looked up, and remove_all()
\* deletes entries and blobs behind the back of the Bullets the callers hold.
NextStale ==
  \/ \E h \in Handles, kwargs \in KwContent : Construct(h, kwargs)
  \/ \E h \in Handles : Discard(h)
  \/ \E h \in Handles : FirstSave(h)
  \/ \E h \in Handles : has_file(h)
  \/ \E h \in Handles : get_file(h)
  \/ \E h \in Handles, identity \in Identities : get_by_id(identity, h)
  \/ remove_all

SpecStale == Init /\ [][NextStale]_vars

\* The Clock singleton used by one thread: clocks are installed, read and
\* destroyed while wall time passes.
NextClock ==
  \/ Tick
  \/ \E obj \in ClockInputs(now) : initialize(obj)
  \/ \E k \in 1..Len(clocks) : reinitialize(k)
  \/ check
  \/ cleanup

SpecClock == Init /\ [][NextClock]_vars

\* The Clock singleton with default clocks only: nothing calls initialize().
NextClockDefault ==
  \/ Tick
  \/ check
  \/ cleanup

SpecClockDefault == Init /\ [][NextClockDefault]_vars

\* Concurrent first use of the Clock: threads call check(), nothing else.
NextClockRace ==
  \/ Tick
  \/ \E t \in Threads : CheckCall(t)
  \/ \E t \in Threads : CheckTest(t)
  \/ \E t \in Threads : CheckConstruct(t)
  \/ \E t \in Threads : CheckInstall(t)
  \/ \E t \in Threads : CheckLoad(t)
  \/ \E t \in Threads : CheckDelegate(t)

SpecClockRace == Init /\ [][NextClockRace]_vars

\* The Clock singleton used by concurrent threads.
NextClockConc ==
  \/ Tick
  \/ \E t \in Threads : CheckCall(t)
  \/ \E t \in Threads : CheckTest(t)
  \/ \E t \in Threads : CheckConstruct(t)
  \/ \E t \in Threads : CheckInstall(t)
  \/ \E t \in Threads : CheckLoad(t)
  \/ \E t \in Threads : CheckDelegate(t)
  \/ \E t \in Threads, obj \in ClockInputs(now) : TInitialize(t, obj)
  \/ \E t \in Threads : TCleanup(t)

SpecClockConc == Init /\ [][NextClockConc]_vars

\* No thread is inside a call and no call has failed.
Quiet == \A u \in Threads : threads[u].op = "idle" /\ threads[u].exc = "none"

\* Callers that do not overlap their calls, and stop at the first failure.
SoloSaveCall(t) == Quiet /\ SaveCall(t)
SoloRemoveAllCall(t) == Quiet /\ RemoveAllCall(t)

\* Clearing the stores: Bullets are saved one call at a time, and
\* remove_all() runs with no other call in progress; a store step of a
\* delete may fail.
NextRemoveAll ==
  \/ \E t \in Threads, kwargs \in KwBlob : TConstruct(t, kwargs)
  \/ \E t \in Threads : TDiscard(t)
  \/ \E t \in Threads : SoloSaveCall(t)
  \/ \E t \in Threads : SavePut(t)
  \/ \E t \in Threads : SaveInsert(t)
  \/ \E t \in Threads : SoloRemoveAllCall(t)
  \/ \E t \in Threads : RemoveAllFind(t)
  \/ \E t \in Threads : DeleteRemove(t)
  \/ \E t \in Threads : DeleteFs(t)
  \/ \E t \in Threads : DeleteFails(t)

SpecRemoveAll == Init /\ [][NextRemoveAll]_vars

\* Concurrent use of the stores: threads save Bullets, delete them and
\* clear the stores, the store steps of their calls interleaved, with no
\* store failure.
NextConc ==
  \/ \E t \in Threads, kwargs \in KwBlob : TConstruct(t, kwargs)
  \/ \E t \in Threads : TDiscard(t)
  \/ \E t \in Threads : SaveCall(t)
  \/ \E t \in Threads : SavePut(t)
  \/ \E t \in Threads : SaveInsert(t)
  \/ \E t \in Threads : DeleteCall(t)
  \/ \E t \in Threads : RemoveAllCall(t)
  \/ \E t \in Threads : RemoveAllFind(t)
  \/ \E t \in Threads : DeleteRemove(t)
  \/ \E t \in Threads : DeleteFs(t)

SpecConc == Init /\ [][NextConc]_vars

\* -------------------------------------------------------------- properties
\* Blob n is the blob of some document of the collection.
Referenced(n) ==
  \E k \in 1..Len(collection) : collection[k].file = Str(Oid(n))

\* C1: after delete() on a Bullet that save() persisted, by the object save()
\* was called on or by one retrieved later, the collection holds no entry
\* with its id and the blob store holds no blob that no entry refers to.
C1_DeleteLeavesNoOrphan ==
  (ret.op = "delete" /\ ret.exc = "none") =>
    /\ \A k \in 1..Len(collection) : Str(collection[k]._id) # handles[ret.h].id
    /\ GetByIdResult(handles[ret.h].id, collection, nextOid).exc = "NotFound"
    /\ \A n \in DOMAIN fs : Referenced(n)

\* C2: after save() returns, the Bullet's file is set if and only if its
\* content was non-empty, and then it names the blob that holds the content.
C2_FileRefSetIffContent ==
  ret.op = "save" =>
    LET b == handles[ret.h]
    IN /\ (b.file # None) <=> Truthy(b.content)
       /\ b.file # None =>
            \E n \in DOMAIN fs : Str(Oid(n)) = b.file /\ fs[n] = b.content

\* C3: for a Bullet saved with non-empty content c and not deleted since,
\* get_by_id(id) succeeds and get_file() on what it returns reads c; and a
\* get_file() call made on such a retrieved Bullet returned c.
C3_RoundTrip ==
  /\ \A id \in DOMAIN saved :
       Truthy(saved[id].content) =>
         LET g == GetByIdResult(id, collection, nextOid)
         IN /\ g.exc = "none"
            /\ GetFileResult(g.obj, fs, nextOid)
                 = [exc |-> "none", val |-> saved[id].content]
  /\ (/\ ret.op = "get_file"
      /\ handles[ret.h].content = None
      /\ handles[ret.h].id \in DOMAIN saved
      /\ Truthy(saved[handles[ret.h].id].content))
       => (ret.exc = "none" /\ ret.val = saved[handles[ret.h].id].content)

\* A retrieved Bullet whose get_file() returned the non-empty saved content.
C3_Witness ==
  /\ ret.op = "get_file"
  /\ ret.exc = "none"
  /\ handles[ret.h].content = None
  /\ handles[ret.h].id \in DOMAIN saved
  /\ Truthy(ret.val)
  /\ ret.val = saved[handles[ret.h].id].content

\* C4: the headers of every constructed Bullet are a mapping.
C4_HeadersAlwaysMapping ==
  \A h \in Handles : IsObj(h) => IsDict(handles[h].headers)

\* A headers argument that is a malformed payload: a string that is not JSON,
\* or a value that is neither a string, a mapping nor None.
Malformed(v) ==
  \/ v.t = "str" /\ Len(v.s) > 0 /\ Loads(v).exc # "none"
  \/ v.t \notin {"str", "dict", "none"}

\* C5: the constructor never raises, and a malformed headers payload gives
\* the empty mapping.
C5_ConstructNeverFails ==
  ret.op = "construct" =>
    /\ ret.exc = "none"
    /\ Malformed(ret.arg.headers) => handles[ret.h].headers = EmptyDict

\* C6 as claimed: get_by_id(identity) either raises NotFound, exactly when
\* identity is not a valid id or no document has that id, or returns the
\* Bullet whose id is the string identity; and it changes neither the
\* collection nor the blob store.
C6_ReturnsIdentityString ==
  /\ [](ret.op = "get_by_id" =>
          LET i == ObjectId(ret.arg, nextOid)
              present == i.exc = "none" /\ FindOne(collection, i.val) # {}
          IN /\ ret.exc \in {"none", "NotFound"}
             /\ (ret.exc = "NotFound") <=> ~present
             /\ ret.exc = "none" =>
                  (IsObj(ret.h) /\ handles[ret.h].id = ret.arg))
  /\ [][ret'.op = "get_by_id" => (collection' = collection /\ fs' = fs)]_vars

\* C6, amended: get_by_id(identity) either raises NotFound, exactly when
\* identity is not a valid id or no document has the id identity is parsed
\* to, or returns the Bullet of the document with that id, whose id is the
\* string form of the parsed id: identity itself when identity is written
\* in lower case, identity in lower case otherwise; and it changes neither
\* the collection nor the blob store.
C6_GetByIdOutcomes ==
  /\ [](ret.op = "get_by_id" =>
          LET i == ObjectId(ret.arg, nextOid)
              present == i.exc = "none" /\ FindOne(collection, i.val) # {}
          IN /\ ret.exc \in {"none", "NotFound"}
             /\ (ret.exc = "NotFound") <=> ~present
             /\ ret.exc = "none" =>
                  /\ IsObj(ret.h)
                  /\ handles[ret.h].id = Str(i.val)
                  /\ ObjectId(handles[ret.h].id, nextOid) = i
                  /\ Upper(handles[ret.h].id.s) = Upper(ret.arg.s)
                  /\ (ret.arg = Str(i.val)) => handles[ret.h].id = ret.arg)
  /\ [][ret'.op = "get_by_id" => (collection' = collection /\ fs' = fs)]_vars

\* get_by_id, asked with an upper-case spelling of its id, found a Bullet
\* that has a blob, in a collection of two: the id of the Bullet is the
\* lower-case spelling.
C6_Witness ==
  /\ ret.op = "get_by_id"
  /\ ret.exc = "none"
  /\ handles[ret.h].id # ret.arg
  /\ ret.arg.s = Upper(handles[ret.h].id.s)
  /\ handles[ret.h].file # None
  /\ Len(collection) >= 2

\* A step in which next() resumed the body of the generator.
Resumed == ret'.op = "next" /\ gen' # gen

\* The Bullet yielded for the document doc.
YieldedFor(b, doc) == b.id = Str(doc._id) /\ b.time = doc.time

\* C7: get_all_chronologically() yields every document of the collection
\* exactly once, each with its own time, in non-decreasing order of time:
\* the first next() receives every document that is in the collection then,
\* each once, in non-decreasing order of time; every next() yields the
\* Bullet of the next of them, and the one after the last ends the sequence.
C7_ChronologicalOrder ==
  /\ []((gen # Free /\ gen.op = "get_all_chronologically") =>
          \A j \in 1..(Len(gen.found) - 1) :
            gen.found[j].time.i <= gen.found[j + 1].time.i)
  /\ [][(Resumed /\ gen.op = "get_all_chronologically"
           /\ gen.state = "created") =>
          IF Len(collection) = 0 THEN ret'.exc = "StopIteration"
          ELSE /\ ret'.exc = "none"
               /\ Len(gen'.found) = Len(collection)
               /\ \A k \in 1..Len(collection) :
                    Cardinality({j \in 1..Len(gen'.found) :
                                   gen'.found[j] = collection[k]}) = 1
               /\ gen'.pos = 1
               /\ YieldedFor(ret'.val, gen'.found[1])]_vars
  /\ [][(Resumed /\ gen.op = "get_all_chronologically"
           /\ gen.state = "running") =>
          IF gen.pos = Len(gen.found) THEN ret'.exc = "StopIteration"
          ELSE /\ ret'.exc = "none"
               /\ gen'.found = gen.found
               /\ gen'.pos = gen.pos + 1
               /\ YieldedFor(ret'.val, gen.found[gen'.pos])]_vars

\* The last Bullet of a listing was yielded, nothing having changed the
\* collection since the first: a collection that is not in time order,
\* after a delete.
C7_Witness ==
  /\ ret.op = "next" /\ ret.exc = "none"
  /\ gen.op = "get_all_chronologically"
  /\ gen.pos = Len(gen.found) /\ gen.pos = Len(collection)
  /\ \A k \in 1..Len(collection) : \E j \in 1..gen.pos : gen.found[j] = collection[k]
  /\ Len(collection) >= 2
  /\ collection[1].time.i > collection[2].time.i
  /\ nextOid - 1 > Len(collection)

\* C8: get_latest() raises NotFound exactly when the collection is empty, and
\* otherwise returns a Bullet of the collection whose time no document exceeds.
C8_LatestIsMax ==
  ret.op = "get_latest" =>
    /\ ret.exc \in {"none", "NotFound"}
    /\ (ret.exc = "NotFound") <=> (Len(collection) = 0)
    /\ ret.exc = "none" =>
         /\ IsObj(ret.h)
         /\ \E k \in 1..Len(collection) :
              /\ Str(collection[k]._id) = handles[ret.h].id
              /\ collection[k].time = handles[ret.h].time
         /\ \A k \in 1..Len(collection) :
              collection[k].time.i <= handles[ret.h].time.i

\* get_latest() returned from a collection whose latest document is not the
\* last one inserted.
C8_Witness ==
  /\ ret.op = "get_latest"
  /\ ret.exc = "none"
  /\ Len(collection) >= 2
  /\ collection[1].time.i > collection[Len(collection)].time.i
  /\ handles[ret.h].time = collection[1].time

\* C9: get_by_id(id) returns a Bullet with the id, headers, uri, method and
\* time the Bullet had when it was saved, and with no content.
C9_RetrievalEquivalent ==
  (ret.op = "get_by_id" /\ ret.exc = "none" /\ ret.arg \in DOMAIN saved) =>
    LET g == handles[ret.h]
        b == saved[ret.arg]
    IN /\ g.id = ret.arg
       /\ g.headers = b.headers
       /\ g.uri = b.uri
       /\ g.method = b.method
       /\ g.time = b.time
       /\ g.content = None

\* C10 as claimed: a constructed Bullet has no id until save() on it, and an
\* id once assigned never changes, whatever is called on the Bullet.
C10_IdNeverChanges ==
  [][\A h \in Handles :
       /\ (handles[h] = Free /\ handles'[h] # Free /\ ret'.op = "construct")
            => handles'[h].id = None
       /\ (handles[h] # Free /\ handles'[h] # Free /\ handles[h].id # None)
            => handles'[h].id = handles[h].id]_vars

\* C10 as the code has it: a constructed Bullet has no id; it gets one only
\* by a save() on it; has_file, get_file and delete leave the id as it is;
\* every save(), a further one too, gives the Bullet the id of the entry it
\* inserts, which is a new one.
C10_IdLifecycle ==
  [][\A h \in Handles :
       /\ (handles[h] = Free /\ handles'[h] # Free /\ ret'.op = "construct")
            => handles'[h].id = None
       /\ (handles[h] # Free /\ handles'[h] # Free) =>
            /\ (handles[h].id = None /\ handles'[h].id # None)
                 => (ret'.op = "save" /\ ret'.h = h)
            /\ (handles[h].id # None /\ ~(ret'.op = "save" /\ ret'.h = h))
                 => handles'[h].id = handles[h].id
            /\ (ret'.op = "save" /\ ret'.h = h)
                 => (/\ handles'[h].id \notin {None, handles[h].id}
                     /\ \E k \in 1..Len(collection') :
                          /\ Str(collection'[k]._id) = handles'[h].id
                          /\ \A j \in 1..Len(collection) :
                               collection[j]._id # collection'[k]._id)]_vars

\* A Bullet that already had an id was saved again, and has_file() was then
\* called on it.
C10_Witness ==
  /\ ret.op = "has_file"
  /\ handles[ret.h].id \in DOMAIN saved
  /\ saved[handles[ret.h].id].id # None

\* The documents of the collection that refer to blob n.
Referrers(n) == {k \in 1..Len(collection) : collection[k].file = Str(Oid(n))}

\* C11: however the store steps of concurrent save() calls on distinct
\* Bullets interleave, no call is ever blocked, the ids assigned are pairwise
\* distinct, the collection holds one entry per completed save, and an entry
\* saved with content refers to a blob of its own that holds its content,
\* while an entry saved without content refers to none.
C11_ConcurrentSavesIndependent ==
  /\ \A t \in Threads :
       threads[t].op = "save" => ENABLED (SavePut(t) \/ SaveInsert(t))
  /\ \A t, u \in Threads :
       (t # u /\ threads[t].self # Free /\ threads[u].self # Free
          /\ threads[t].self.id # None) => threads[t].self.id # threads[u].self.id
  /\ \A j, k \in 1..Len(collection) :
       j # k => collection[j]._id # collection[k]._id
  /\ Cardinality(DOMAIN saved) = Len(collection)
  /\ \A k \in 1..Len(collection) :
       LET id == Str(collection[k]._id)
       IN /\ id \in DOMAIN saved
          /\ IF Truthy(saved[id].content)
             THEN \E n \in DOMAIN fs :
                    /\ collection[k].file = Str(Oid(n))
                    /\ fs[n] = saved[id].content
                    /\ Referrers(n) = {k}
             ELSE collection[k].file = None

\* C11 witness: two saves with different contents ran interleaved (both
\* blobs were written before either entry was inserted, and the entries went
\* in in the opposite order to the blobs) and both have completed.
C11_Witness ==
  /\ Len(collection) = 2
  /\ \A t \in Threads :
       t <= 2 => /\ threads[t].op = "idle" /\ threads[t].self # Free
                 /\ threads[t].self.id # None
  /\ collection[1].file = Str(Oid(2)) /\ collection[2].file = Str(Oid(1))
  /\ fs[1] # fs[2]
  /\ collection[1]._id = Oid(3) /\ collection[2]._id = Oid(4)

\* C12: when the insert of a save() fails, the error reaches the caller, the
\* collection is as it was, the Bullet still has no id, and the blob the
\* call had written (if its content was non-empty) is still in the blob
\* store, holding the content, with no entry referring to it.
C12_NoRollback ==
  [][\A t \in Threads :
       (threads[t].op = "save" /\ threads'[t].op = "idle"
          /\ threads'[t].exc # "none") =>
         /\ ret' = Ret("save", t, None, "OperationFailure", None)
         /\ collection' = collection
         /\ threads'[t].self.id = None
         /\ Truthy(threads[t].self.content) =>
              \E n \in DOMAIN fs' :
                /\ threads[t].file = Str(Oid(n))
                /\ fs'[n] = threads[t].self.content
                /\ \A k \in 1..Len(collection') : collection'[k].file # Str(Oid(n))]_vars

\* C12 witness: a save() of a Bullet with content has failed at its insert
\* and its blob is in the blob store with no entry referring to it.
C12_Witness ==
  \E t \in Threads :
    /\ threads[t].op = "idle"
    /\ ret = Ret("save", t, None, "OperationFailure", None)
    /\ threads[t].self # Free
    /\ Truthy(threads[t].self.content) /\ threads[t].self.id = None
    /\ \E n \in DOMAIN fs : fs[n] = threads[t].self.content /\ Referrers(n) = {}

\* The blob that the file reference of Bullet b names is in the blob store.
BlobPresent(b) == \E n \in DOMAIN fs : b.file = Str(Oid(n))

\* C13: has_file() never fails, and it returns true exactly when the
\* Bullet's file reference is set and the blob store holds that blob at the
\* time of the call; so it returns false for a Bullet that was saved with no
\* content, and for one whose blob was deleted after it was retrieved.
C13_HasFileIffBlobPresent ==
  ret.op = "has_file" =>
    LET b == handles[ret.h]
    IN /\ ret.exc = "none"
       /\ ret.val = PyBool(b.file # None /\ BlobPresent(b))
       /\ (b.id \in DOMAIN saved /\ ~Truthy(saved[b.id].content)) =>
            ret.val = PyBool(FALSE)

\* C13 witness: has_file() returned false on a retrieved Bullet whose file
\* reference is set and whose blob has been deleted since.
C13_Witness ==
  /\ ret.op = "has_file" /\ ret.exc = "none" /\ ret.val = PyBool(FALSE)
  /\ handles[ret.h].file # None /\ ~BlobPresent(handles[ret.h])

\* C14: get_file() on a Bullet whose file reference is set raises NoFile
\* exactly when the blob store holds no blob for the reference, and
\* otherwise returns the contents of that blob; no other error reaches the
\* caller.
C14_GetFileNoFileIffAbsent ==
  (ret.op = "get_file" /\ handles[ret.h].file # None) =>
    LET b == handles[ret.h]
    IN /\ ret.exc \in {"none", "NoFile"}
       /\ ret.exc = "NoFile" <=> ~BlobPresent(b)
       /\ BlobPresent(b) =>
            \E n \in DOMAIN fs : b.file = Str(Oid(n)) /\ ret.val = fs[n]

\* C14 witness: get_file() raised NoFile on a retrieved Bullet whose blob
\* had been deleted through another Bullet.
C14_Witness ==
  /\ ret.op = "get_file" /\ ret.exc = "NoFile"
  /\ handles[ret.h].file # None /\ ~BlobPresent(handles[ret.h])
  /\ handles[ret.h].id # None

\* A step that is a call of Clock.check(): wall time passes in it only when
\* it makes a clock.
CheckStep == ret'.op = "check" /\ (now' = now \/ clocks' # clocks)

\* C15: used by one thread, the singleton is uninitialized at the start and
\* after every cleanup(); after initialize(c) it holds c; a check() on the
\* uninitialized singleton creates a new default clock (zero at the current
\* wall time) and installs it; a check() on an initialized singleton leaves
\* the installed clock in place; and every check() returns the reading of
\* the clock that is installed when it returns.
C15_ClockStateMachine ==
  /\ [](ret.op \in {"start", "cleanup"} => Uninitialized(clock))
  /\ [](ret.op = "initialize" => clock = ret.arg /\ ~Uninitialized(clock))
  /\ [][CheckStep =>
          /\ ~Uninitialized(clock')
          /\ Uninitialized(clock) =>
               /\ clocks' = Append(clocks, MilisecondsClock(0, now))
               /\ clock' = Ref(Len(clocks'))
          /\ ~Uninitialized(clock) => clock' = clock /\ clocks' = clocks
          /\ ret'.exc = "none"
          /\ ret'.val = PyInt(ClockCheck(clocks'[clock'.r], now'))]_vars

\* C15 witness: a clock of the default kind was installed first and check()
\* has read it, a fake clock was installed after it, and the last check()
\* has returned the fake's reading.
C15_Witness ==
  /\ ret.op = "check" /\ ret.exc = "none"
  /\ Len(clocks) >= 2 /\ clocks[1].kind = "MilisecondsClock"
  /\ 1 \in DOMAIN readings
  /\ ~Uninitialized(clock) /\ clock.r >= 2 /\ clocks[clock.r].kind = "fake"
  /\ ret.arg = clock /\ ret.val = PyInt(clocks[clock.r].value)
  /\ readings[clock.r] = clocks[clock.r].value

\* C16: with only default clocks installed and wall time never decreasing,
\* every value check() returns is greater than or equal to every value it
\* returned before, cleanup() calls in between or not.
C16_ReadingsMonotonic ==
  [][(CheckStep /\ ret'.exc = "none") =>
       \A k \in DOMAIN readings : ret'.val.i >= readings[k]]_vars

\* C16, amended: with only default clocks installed and wall time never
\* decreasing, every value check() returns is greater than or equal to every
\* value it returned before from the same installed clock, that is since the
\* last cleanup().
C16_MonotonicPerClock ==
  [][(CheckStep /\ ret'.exc = "none") =>
       /\ ~Uninitialized(clock')
       /\ clock'.r \in DOMAIN readings => ret'.val.i >= readings[clock'.r]]_vars

\* C16 witness: the first default clock has been read, and a second default
\* clock, which only a check() after a cleanup() installs, has been read
\* after wall time passed since it was made: the reading is positive and is
\* the wall time less the clock's zero.
C16_Witness ==
  /\ ret.op = "check" /\ ret.exc = "none" /\ ret.val.i > 0
  /\ Len(clocks) = 2 /\ clock = Ref(2) /\ DOMAIN readings = {1, 2}
  /\ \A k \in 1..2 : clocks[k].kind = "MilisecondsClock"
  /\ clocks[2].zero >= clocks[1].zero
  /\ readings[2] = ret.val.i /\ ret.val.i = now - clocks[2].zero

\* C17: when threads call check() concurrently on the uninitialized
\* singleton, one default clock is created and installed, and every call
\* that has returned took its reading from the installed clock.
C17_OneDefaultClock ==
  /\ Len(clocks) <= 1
  /\ (ret.op = "check" /\ ret.exc = "none") => ret.arg = clock

\* C20: however check(), initialize(c) and cleanup() calls of concurrent
\* threads interleave, no check() finds the singleton's clock absent at its
\* delegation step: none ends with an AttributeError.
C20_CheckAlwaysHasClock ==
  ret.op = "check" => ret.exc # "AttributeError"

\* Document doc is intact in the stores c and f: it is in the collection
\* and, if it refers to a blob, the blob is in the blob store.
Intact(doc, c, f) ==
  /\ \E k \in 1..Len(c) : c[k] = doc
  /\ doc.file # None => \E n \in DOMAIN f : doc.file = Str(Oid(n))

\* C18: on stores filled by save() calls, with no save running beside it, a
\* remove_all() that returns leaves the collection and the blob store
\* empty; and when a store step of one of its deletes fails, the error ends
\* the call, the documents it had not reached yet are intact and are all
\* that the collection holds, and of the documents deleted before nothing is
\* left: the only blob without an entry can be the one of the Bullet whose
\* delete failed.
C18_RemoveAllClears ==
  [][\A t \in Threads :
       (threads[t].op = "remove_all" /\ threads'[t].op = "idle") =>
         IF threads'[t].exc = "none"
         THEN Len(collection') = 0 /\ DOMAIN fs' = {}
         ELSE /\ collection' = collection /\ fs' = fs
              /\ \A k \in 1..Len(threads[t].cursor) :
                   Intact(threads[t].cursor[k], collection', fs')
              /\ Len(collection') = Len(threads[t].cursor)
                   + (IF Head(threads[t].todo) = "remove" THEN 1 ELSE 0)
              /\ \A k \in 1..Len(collection') :
                   Intact(collection'[k], collection', fs')
              /\ \A n \in DOMAIN fs' :
                   \/ \E k \in 1..Len(collection') : collection'[k].file = Str(Oid(n))
                   \/ threads[t].bullet.file = Str(Oid(n))]_vars

\* C18 witness: the threads hold two Bullets with content that were saved
\* (each has the id its save() gave it; four ids were generated in all), and
\* a remove_all() has returned, leaving both stores empty.
C18_Witness ==
  /\ ret.op = "remove_all" /\ ret.exc = "none"
  /\ nextOid = 5
  /\ \A t \in Threads :
       /\ threads[t].op = "idle" /\ threads[t].self # Free
       /\ threads[t].self.id # None /\ Truthy(threads[t].self.content)
  /\ \A t, u \in Threads : t # u => threads[t].self.id # threads[u].self.id
  /\ Len(collection) = 0 /\ DOMAIN fs = {}

\* C19: however the store steps of concurrent save(), delete() and
\* remove_all() calls interleave, every entry of the collection that has a
\* file reference refers to a blob that is in the blob store.
C19_NoDanglingReference ==
  \A k \in 1..Len(collection) :
    collection[k].file # None =>
      \E n \in DOMAIN fs : collection[k].file = Str(Oid(n))

\* C19 witness: a delete() has removed its entry and not yet its blob, and
\* the collection holds another entry with a file reference.
C19_Witness ==
  /\ \E t \in Threads :
       threads[t].op \in {"delete", "remove_all"} /\ At(t, "fs_delete")
  /\ \E k \in 1..Len(collection) : collection[k].file # None
====
